---- MODULE Spec2Model ----
(***************************************************************************)
(* Teacher Assessment Tool: the analytics engine (src/utils/analytics.ts),  *)
(* the alert list of the dashboard page, the account lockout of            *)
(* AuthManager (src/utils/auth.ts) and the sync queue of SyncManager       *)
(* (src/utils/syncManager.ts, src/utils/offlineStorage.ts)                 *)
(*                                                                         *)
(* Numbers.  A score is an integer number of hundredths of a point (2.75   *)
(* is 275).  A mean is the exact fraction sum/length, kept in lowest terms *)
(* as [num, den]; the code computes it in IEEE doubles.  The score values  *)
(* of the input families below are chosen so that every comparison the     *)
(* code makes on its doubles has the outcome of the exact comparison.      *)
(* The message text of an alert is display text and is left out.           *)
(*                                                                         *)
(* Calls.  Each specification of the analytics engine calls one function   *)
(* once on an input drawn from a bounded family; pc names the function     *)
(* that returned, or is "threw" when the call ended in a TypeError.  The   *)
(* specifications of the login and sync calls interleave the calls in      *)
(* flight at their awaits.                                                 *)
(***************************************************************************)
EXTENDS Integers, Sequences, FiniteSets, TLC

VARIABLES logs, selectedStudent, trends, peerComparisons, alerts,
          recommendations, pc

\* the dismiss button last pressed on the dashboard
VARIABLES clicked

\* AuthManager and the appSettings store it keeps its counters in:
\* settings holds the stored attempt count and lockedUntil of one email,
\* now is Date.now(), calls the position of every login() call in flight,
\* lockDue the lockedUntil of the lockout recorded last
VARIABLES settings, now, calls, lockDue

authVars == <<settings, now, calls, lockDue>>

\* SyncManager and the syncQueue store: status is the manager's status
\* object, syncQueue the stored retries of every item (-1: not in the store),
\* runs the position of every sync() call in flight, history what has
\* happened to each item so far
VARIABLES status, syncQueue, runs, history

syncVars == <<status, syncQueue, runs, history>>

appVars == <<clicked, authVars, syncVars>>

analyticsVars == <<logs, selectedStudent, trends, peerComparisons, alerts,
                   recommendations, pc>>

vars == <<logs, selectedStudent, trends, peerComparisons, alerts,
          recommendations, pc, appVars>>


----------------------------------------------------------------------------
(* Exact arithmetic *)

Abs(x) == IF x < 0 THEN -x ELSE x

RECURSIVE GCD(_, _)
GCD(a, b) == IF b = 0 THEN a ELSE GCD(b, a % b)

\* n/d in lowest terms, d > 0
Frac(n, d) ==
  LET g == GCD(Abs(n), d)
  IN  [num |-> n \div g, den |-> d \div g]

FracSub(a, b) == Frac(a.num * b.den - b.num * a.den, a.den * b.den)

FracLess(a, b) == a.num * b.den < b.num * a.den

\* a > k for a whole number k of hundredths
FracAbove(a, k) == a.num > k * a.den

RECURSIVE Sum(_)
Sum(s) == IF s = <<>> THEN 0 ELSE Head(s) + Sum(Tail(s))

\* arr.reduce((a, b) => a + b, 0) / arr.length
Mean(s) == Frac(Sum(s), Len(s))

\* Array.prototype.slice(from, to) with JavaScript's negative indexes
slice(s, from, to) ==
  LET n == Len(s)
      lo == IF from < 0 THEN (IF n + from < 0 THEN 0 ELSE n + from)
                        ELSE (IF from > n THEN n ELSE from)
      hi == IF to < 0 THEN (IF n + to < 0 THEN 0 ELSE n + to)
                      ELSE (IF to > n THEN n ELSE to)
  IN  SubSeq(s, lo + 1, hi)

Range(s) == {s[i] : i \in DOMAIN s}

----------------------------------------------------------------------------
(* Program constants; the score-valued ones in hundredths of a point:       *)
(* 0.5, 0.7 and 1 point of decline, the 2.5 threshold and its 1.5 and 2     *)
(* severity bands.  PointUnit is one point of the 1-5 scale.                *)

Categories ==
  <<"Cognitive Skills", "Social Skills", "Emotional Readiness",
    "Communication", "Creativity">>

MinCategoryLogs == 3

WindowSize == 3

DeclineLimit == 50

DeclineMedium == 70

DeclineHigh == 100

ScoreThreshold == 250

ThresholdHigh == 150

ThresholdMedium == 200

PointUnit == 100

----------------------------------------------------------------------------
(* generateInterventionAlerts *)

RECURSIVE StudentIds(_)
\* keys of studentMap in insertion order: first appearance in logs
StudentIds(ls) ==
  IF ls = <<>> THEN <<>>
  ELSE LET rest == StudentIds(SubSeq(ls, 1, Len(ls) - 1))
           id == ls[Len(ls)].studentId
       IN  IF id \in Range(rest) THEN rest ELSE Append(rest, id)

studentLogsOf(ls, studentId) ==
  SelectSeq(ls, LAMBDA log : log.studentId = studentId)

\* log.categories behind its guard (if (log.categories), ?. and || []): a
\* record that has no categories array contributes no entry
logCategories(log) ==
  IF "categories" \in DOMAIN log THEN log.categories ELSE <<>>

HasCategory(log, category) ==
  \E i \in DOMAIN logCategories(log) : logCategories(log)[i].category = category

categoryLogsOf(studentLogs, category) ==
  SelectSeq(studentLogs, LAMBDA log : HasCategory(log, category))

RECURSIVE flatScores(_, _)
\* categoryLogs.flatMap(log => log.categories.filter(...)).map(cat => cat.score)
flatScores(categoryLogs, category) ==
  IF categoryLogs = <<>> THEN <<>>
  ELSE LET own == SelectSeq(logCategories(Head(categoryLogs)),
                            LAMBDA cat : cat.category = category)
       IN  [i \in DOMAIN own |-> own[i].score]
             \o flatScores(Tail(categoryLogs), category)

\* new Date(a).getTime() of a number a: the time value a truncated to an integer
DateTime(a) == a \div PointUnit

\* the comparator of the score sort: the sign of its result says "a after b"
ScoreAfter(a, b) == DateTime(a) - DateTime(b) > 0

RECURSIVE InsertScore(_, _)
\* x put behind every element of the sorted s that is not after it (stable)
InsertScore(s, x) ==
  IF s = <<>> THEN <<x>>
  ELSE IF ScoreAfter(s[Len(s)], x)
       THEN Append(InsertScore(SubSeq(s, 1, Len(s) - 1), x), s[Len(s)])
       ELSE Append(s, x)

RECURSIVE sortScores(_)
sortScores(s) ==
  IF s = <<>> THEN <<>>
  ELSE InsertScore(sortScores(SubSeq(s, 1, Len(s) - 1)), s[Len(s)])

\* the sorted scores of one student's category
scoresOf(studentLogs, category) ==
  sortScores(flatScores(categoryLogsOf(studentLogs, category), category))

\* mutant: the gate needs more than three records
EvaluatedAboveMin(categoryLogs) == Len(categoryLogs) > MinCategoryLogs

Evaluated(categoryLogs) == Len(categoryLogs) >= MinCategoryLogs

recentScores(scores) == slice(scores, -WindowSize, Len(scores))

olderScores(scores) == slice(scores, -2 * WindowSize, -WindowSize)

DeclineChecked(scores) ==
  /\ Len(scores) >= WindowSize
  /\ Len(olderScores(scores)) > 0

\* mutant: a decline of exactly the limit fires
DeclineFiresAtLimit(decline) == decline.num >= DeclineLimit * decline.den

DeclineFires(decline) == FracAbove(decline, DeclineLimit)

DeclineSeverity(decline) ==
  IF FracAbove(decline, DeclineHigh) THEN "high"
  ELSE IF FracAbove(decline, DeclineMedium) THEN "medium"
  ELSE "low"

currentScore(scores) == scores[Len(scores)]

\* mutant: a score of exactly the threshold fires
ThresholdFiresAtLimit(score) == score <= ScoreThreshold

ThresholdFires(score) == score < ScoreThreshold

ThresholdSeverity(score) ==
  IF score < ThresholdHigh THEN "high"
  ELSE IF score < ThresholdMedium THEN "medium"
  ELSE "low"

declineAlerts(studentId, studentName, category, scores) ==
  IF ~DeclineChecked(scores) THEN <<>>
  ELSE LET recentAvg == Mean(recentScores(scores))
           olderAvg == Mean(olderScores(scores))
           decline == FracSub(olderAvg, recentAvg)
       IN  IF DeclineFires(decline)
           THEN << [studentId |-> studentId, studentName |-> studentName,
                    alertType |-> "decline", category |-> category,
                    severity |-> DeclineSeverity(decline),
                    score |-> recentAvg, threshold |-> olderAvg,
                    trend |-> decline] >>
           ELSE <<>>

\* a threshold alert for every score below the threshold, not for the last one
thresholdAlertsForEachScore(studentId, studentName, category, scores) ==
  LET low == SelectSeq(scores, LAMBDA s : ThresholdFires(s))
  IN  [i \in DOMAIN low |->
         [studentId |-> studentId, studentName |-> studentName,
          alertType |-> "threshold", category |-> category,
          severity |-> ThresholdSeverity(low[i]),
          score |-> Frac(low[i], 1),
          threshold |-> Frac(ScoreThreshold, 1),
          trend |-> Frac(0, 1)]]

thresholdAlerts(studentId, studentName, category, scores) ==
  IF ThresholdFires(currentScore(scores))
  THEN << [studentId |-> studentId, studentName |-> studentName,
           alertType |-> "threshold", category |-> category,
           severity |-> ThresholdSeverity(currentScore(scores)),
           score |-> Frac(currentScore(scores), 1),
           threshold |-> Frac(ScoreThreshold, 1),
           trend |-> Frac(0, 1)] >>
  ELSE <<>>

\* the body of categories.forEach for one category of one student
categoryAlerts(studentId, studentLogs, category) ==
  LET categoryLogs == categoryLogsOf(studentLogs, category)
      studentName == studentLogs[1].studentName
  IN  IF Evaluated(categoryLogs)
      THEN LET scores == sortScores(flatScores(categoryLogs, category))
           IN  declineAlerts(studentId, studentName, category, scores)
                 \o thresholdAlerts(studentId, studentName, category, scores)
      ELSE <<>>

RECURSIVE studentAlerts(_, _, _)
\* categories.forEach over the first n categories
studentAlerts(studentId, studentLogs, n) ==
  IF n = 0 THEN <<>>
  ELSE studentAlerts(studentId, studentLogs, n - 1)
         \o categoryAlerts(studentId, studentLogs, Categories[n])

RECURSIVE collectAlerts(_, _)
\* studentMap.forEach over the student ids
collectAlerts(ids, ls) ==
  IF ids = <<>> THEN <<>>
  ELSE collectAlerts(SubSeq(ids, 1, Len(ids) - 1), ls)
         \o studentAlerts(ids[Len(ids)], studentLogsOf(ls, ids[Len(ids)]),
                          Len(Categories))

severityOrder(severity) ==
  CASE severity = "high" -> 3
    [] severity = "medium" -> 2
    [] severity = "low" -> 1

\* mutant: the comparator orders the severities ascending
AlertAfterAscending(a, b) ==
  severityOrder(a.severity) - severityOrder(b.severity) > 0

\* the comparator of the final sort: the sign of its result says "a after b"
AlertAfter(a, b) == severityOrder(b.severity) - severityOrder(a.severity) > 0

RECURSIVE InsertAlert(_, _)
InsertAlert(s, x) ==
  IF s = <<>> THEN <<x>>
  ELSE IF AlertAfter(s[Len(s)], x)
       THEN Append(InsertAlert(SubSeq(s, 1, Len(s) - 1), x), s[Len(s)])
       ELSE Append(s, x)

RECURSIVE sortAlerts(_)
\* Array.prototype.sort: stable
sortAlerts(s) ==
  IF s = <<>> THEN <<>>
  ELSE InsertAlert(sortAlerts(SubSeq(s, 1, Len(s) - 1)), s[Len(s)])

generateInterventionAlerts(ls) == sortAlerts(collectAlerts(StudentIds(ls), ls))

----------------------------------------------------------------------------
(* calculatePeerComparison *)

\* Math.round: the nearest integer, a half rounded up
MathRound(f) == (2 * f.num + f.den) \div (2 * f.den)

RECURSIVE firstScores(_, _)
\* one score of the category for each record: its first entry
firstScores(studentLogs, category) ==
  IF studentLogs = <<>> THEN <<>>
  ELSE LET own == SelectSeq(logCategories(Head(studentLogs)),
                            LAMBDA cat : cat.category = category)
       IN  (IF own = <<>> THEN <<>> ELSE <<own[1].score>>)
             \o firstScores(Tail(studentLogs), category)

RECURSIVE allScores(_, _)
\* studentMap.get(id).scores[category]: every entry of the category, in order
allScores(studentLogs, category) ==
  IF studentLogs = <<>> THEN <<>>
  ELSE LET own == SelectSeq(logCategories(Head(studentLogs)),
                            LAMBDA cat : cat.category = category)
       IN  [i \in DOMAIN own |-> own[i].score]
             \o allScores(Tail(studentLogs), category)

categoriesOf(studentLogs) ==
  UNION {{logCategories(studentLogs[i])[j].category :
            j \in DOMAIN logCategories(studentLogs[i])} : i \in DOMAIN studentLogs}

\* one entry of studentAverages, before the percentiles are filled in
studentAverage(ls, studentId) ==
  LET studentLogs == studentLogsOf(ls, studentId)
  IN  [studentId |-> studentId,
       studentName |-> studentLogs[1].studentName,
       categoryAverages |->
         [c \in categoriesOf(studentLogs) |-> Mean(allScores(studentLogs, c))]]

studentAveragesOf(ls) ==
  LET ids == StudentIds(ls)
  IN  [i \in DOMAIN ids |-> studentAverage(ls, ids[i])]

\* score > 0 for s.categoryAverages[category], which is undefined without data
HasAverage(student, category) ==
  /\ category \in DOMAIN student.categoryAverages
  /\ student.categoryAverages[category].num > 0

\* the comparator of the cohort sort: the sign of a - b says "a after b"
AverageAfter(a, b) == FracLess(b, a)

RECURSIVE InsertAverage(_, _)
InsertAverage(s, x) ==
  IF s = <<>> THEN <<x>>
  ELSE IF AverageAfter(s[Len(s)], x)
       THEN Append(InsertAverage(SubSeq(s, 1, Len(s) - 1), x), s[Len(s)])
       ELSE Append(s, x)

RECURSIVE sortAverages(_)
sortAverages(s) ==
  IF s = <<>> THEN <<>>
  ELSE InsertAverage(sortAverages(SubSeq(s, 1, Len(s) - 1)), s[Len(s)])

\* the cohort of a category: the averages above 0, ascending
cohortScores(studentAverages, category) ==
  LET with == SelectSeq(studentAverages, LAMBDA st : HasAverage(st, category))
  IN  sortAverages([i \in DOMAIN with |-> with[i].categoryAverages[category]])

\* mutant: the rank counts the scores that are not above the student's
findIndexAbove(scores, score) ==
  IF \E i \in DOMAIN scores : FracLess(score, scores[i])
  THEN (CHOOSE i \in DOMAIN scores :
          /\ FracLess(score, scores[i])
          /\ \A k \in 1..(i - 1) : ~FracLess(score, scores[k])) - 1
  ELSE -1

\* scores.findIndex(s => s >= score), counted from 0; -1 when there is none
findIndex(scores, score) ==
  IF \E i \in DOMAIN scores : ~FracLess(scores[i], score)
  THEN (CHOOSE i \in DOMAIN scores :
          /\ ~FracLess(scores[i], score)
          /\ \A k \in 1..(i - 1) : FracLess(scores[k], score)) - 1
  ELSE -1

\* mutant: the share of the cohort at or above the rank
percentileFromTop(rank, n) == MathRound(Frac((n - rank) * 100, n))

\* the share of the cohort strictly below the rank
percentileBelow(rank, n) == MathRound(Frac(rank * 100, n))

\* Math.round(((rank + 1) / scores.length) * 100)
percentileOf(rank, n) == MathRound(Frac((rank + 1) * 100, n))

percentileMap(studentAverages, student) ==
  [c \in Range(Categories) |->
     IF HasAverage(student, c)
     THEN LET scores == cohortScores(studentAverages, c)
          IN  percentileOf(findIndex(scores, student.categoryAverages[c]),
                           Len(scores))
     ELSE 0]

\* the percentiles of the canonical categories, in their order
percentileValues(percentile) ==
  [n \in DOMAIN Categories |-> percentile[Categories[n]]]

\* mutant: the categories without data count as zero
overallWithZeros(percentile) ==
  LET all == percentileValues(percentile)
  IN  MathRound(Frac(Sum(all), Len(all)))

overallOf(percentile) ==
  LET validPercentiles == SelectSeq(percentileValues(percentile), LAMBDA v : v > 0)
  IN  IF Len(validPercentiles) > 0
      THEN MathRound(Frac(Sum(validPercentiles), Len(validPercentiles)))
      ELSE 0

withPercentiles(studentAverages) ==
  [i \in DOMAIN studentAverages |->
     LET percentile == percentileMap(studentAverages, studentAverages[i])
     IN  [studentId |-> studentAverages[i].studentId,
          studentName |-> studentAverages[i].studentName,
          categoryAverages |-> studentAverages[i].categoryAverages,
          percentile |-> percentile,
          overallPercentile |-> overallOf(percentile)]]

\* the result sort in ascending order
PeerAfterAscending(a, b) == a.overallPercentile - b.overallPercentile > 0

\* the comparator of the final sort: b.overallPercentile - a.overallPercentile
PeerAfter(a, b) == b.overallPercentile - a.overallPercentile > 0

RECURSIVE InsertPeer(_, _)
InsertPeer(s, x) ==
  IF s = <<>> THEN <<x>>
  ELSE IF PeerAfter(s[Len(s)], x)
       THEN Append(InsertPeer(SubSeq(s, 1, Len(s) - 1), x), s[Len(s)])
       ELSE Append(s, x)

RECURSIVE sortPeers(_)
sortPeers(s) ==
  IF s = <<>> THEN <<>>
  ELSE InsertPeer(sortPeers(SubSeq(s, 1, Len(s) - 1)), s[Len(s)])

calculatePeerComparison(ls) == sortPeers(withPercentiles(studentAveragesOf(ls)))

----------------------------------------------------------------------------
(* calculateTrends *)

(* A timestamp is the local calendar day of the observation, counted from   *)
(* day 1 = Monday 1 January 2024; day 0 is a Sunday, so that getDay() of a  *)
(* day is its number modulo 7.                                             *)

IsLeapYear(y) == y % 4 = 0 /\ (y % 100 # 0 \/ y % 400 = 0)

\* the length of month m (0 = January, as getMonth() counts) of year y
DaysInMonth(y, m) ==
  CASE m = 1 -> IF IsLeapYear(y) THEN 29 ELSE 28
    [] m \in {3, 5, 8, 10} -> 30
    [] OTHER -> 31

RECURSIVE CivilDate(_, _, _)
\* day d, counted from the first of month m of year y, as year, month and date
CivilDate(y, m, d) ==
  IF d <= DaysInMonth(y, m) THEN [year |-> y, month |-> m, date |-> d]
  ELSE IF m = 11 THEN CivilDate(y + 1, 0, d - DaysInMonth(y, m))
       ELSE CivilDate(y, m + 1, d - DaysInMonth(y, m))

\* new Date(log.timestamp): getFullYear(), getMonth() and getDate()
DateOf(timestamp) == CivilDate(2024, 0, timestamp)

\* new Date(year, month, 1).getDay(): 0 is Sunday
FirstWeekday(timestamp) == (timestamp - DateOf(timestamp).date + 1) % 7

\* Math.ceil(n / 7)
CeilSevenths(n) == (n + 6) \div 7

\* mutant: the week counted from the first of January
getWeekKeyOfYear(timestamp) ==
  <<"W", DateOf(timestamp).year, CeilSevenths(timestamp + 1)>>

\* the key `${year}-W${week}`, the week padded to two digits
getWeekKey(timestamp) ==
  <<"W", DateOf(timestamp).year,
    CeilSevenths(DateOf(timestamp).date + FirstWeekday(timestamp))>>

\* the key `${year}-${month}`, the month counted from 1 and padded
getMonthKey(timestamp) ==
  <<"M", DateOf(timestamp).year, DateOf(timestamp).month + 1>>

\* the aggregation over every record, whatever the id
unfilteredLogsOf(ls, studentId) == ls

\* studentId ? logs.filter(...) : logs; an absent id and "" are both falsy
filteredLogsOf(ls, studentId) ==
  IF studentId # "" THEN studentLogsOf(ls, studentId) ELSE ls

\* mutant: a week entry is opened for every record
weekKeysOfEachRecord(ls) == [i \in DOMAIN ls |-> getWeekKey(ls[i].timestamp)]

RECURSIVE weekKeysOf(_)
\* the keys of weeklyData in insertion order: a key is set at the first record
\* of its bucket, whether or not the record has categories
weekKeysOf(ls) ==
  IF ls = <<>> THEN <<>>
  ELSE LET rest == weekKeysOf(SubSeq(ls, 1, Len(ls) - 1))
           key == getWeekKey(ls[Len(ls)].timestamp)
       IN  IF key \in Range(rest) THEN rest ELSE Append(rest, key)

RECURSIVE monthKeysOf(_)
monthKeysOf(ls) ==
  IF ls = <<>> THEN <<>>
  ELSE LET rest == monthKeysOf(SubSeq(ls, 1, Len(ls) - 1))
           key == getMonthKey(ls[Len(ls)].timestamp)
       IN  IF key \in Range(rest) THEN rest ELSE Append(rest, key)

\* the records that fall into the bucket of a key
bucketLogsOf(ls, period) ==
  SelectSeq(ls, LAMBDA log : period \in {getWeekKey(log.timestamp),
                                         getMonthKey(log.timestamp)})

\* weeklyData.get(key)[category]: the scores pushed for the category, in order
bucketScores(bucketLogs, category) == allScores(bucketLogs, category)

\* arr.length > 0 ? sum / arr.length : 0
bucketMean(arr) == IF Len(arr) > 0 THEN Mean(arr) ELSE Frac(0, 1)

RECURSIVE totalObservationsByRecords(_, _)
totalObservationsByRecords(C, bucketLogs) ==
  IF C = {} THEN 0
  ELSE LET c == CHOOSE x \in C : TRUE
       IN  Len(categoryLogsOf(bucketLogs, c)) + totalObservationsByRecords(C \ {c}, bucketLogs)

RECURSIVE totalObservationsOf(_, _)
\* Object.values(scores).reduce((sum, arr) => sum + arr.length, 0)
totalObservationsOf(C, bucketLogs) ==
  IF C = {} THEN 0
  ELSE LET c == CHOOSE x \in C : TRUE
       IN  Len(bucketScores(bucketLogs, c)) + totalObservationsOf(C \ {c}, bucketLogs)

\* one TrendData
trendOf(ls, period) ==
  LET bucketLogs == bucketLogsOf(ls, period)
  IN  [period |-> period,
       scores |-> [c \in categoriesOf(bucketLogs) |->
                     bucketMean(bucketScores(bucketLogs, c))],
       totalObservations |->
         totalObservationsOf(categoriesOf(bucketLogs), bucketLogs)]

\* [...weeklyTrends, ...monthlyTrends]
trendEntries(filteredLogs) ==
  LET weeks == weekKeysOf(filteredLogs)
      months == monthKeysOf(filteredLogs)
  IN  [i \in DOMAIN weeks |-> trendOf(filteredLogs, weeks[i])]
        \o [i \in DOMAIN months |-> trendOf(filteredLogs, months[i])]

\* new Date(period) is a valid date for a month key (the ISO form YYYY-MM)
\* and an invalid one for a week key, whose getTime() is NaN
IsValidDate(period) == period[1] = "M"

RECURSIVE MonthStart(_, _, _, _)
\* the day number of the first of month m of year y
MonthStart(y, m, fromYear, fromMonth) ==
  IF y = fromYear /\ m = fromMonth THEN 1
  ELSE IF fromMonth = 11
       THEN DaysInMonth(fromYear, fromMonth) + MonthStart(y, m, fromYear + 1, 0)
       ELSE DaysInMonth(fromYear, fromMonth) + MonthStart(y, m, fromYear, fromMonth + 1)

\* new Date(period).getTime() of a month key, in days
periodTime(period) == MonthStart(period[2], period[3] - 1, 2024, 0)

\* the comparator of the final sort; a NaN result counts as 0
periodCompare(a, b) ==
  IF IsValidDate(a.period) /\ IsValidDate(b.period)
  THEN periodTime(a.period) - periodTime(b.period)
  ELSE 0

\* the sort's contract: a comparator that orders the elements consistently
ConsistentComparator(s) ==
  \A i, j, k \in DOMAIN s :
    /\ periodCompare(s[i], s[j]) = 0 /\ periodCompare(s[j], s[k]) = 0
         => periodCompare(s[i], s[k]) = 0
    /\ periodCompare(s[i], s[j]) < 0 /\ periodCompare(s[j], s[k]) < 0
         => periodCompare(s[i], s[k]) < 0

RECURSIVE InsertTrend(_, _)
InsertTrend(s, x) ==
  IF s = <<>> THEN <<x>>
  ELSE IF periodCompare(s[Len(s)], x) > 0
       THEN Append(InsertTrend(SubSeq(s, 1, Len(s) - 1), x), s[Len(s)])
       ELSE Append(s, x)

RECURSIVE sortTrends(_)
\* the stable sort that a consistent comparator is owed
sortTrends(s) ==
  IF s = <<>> THEN <<>>
  ELSE InsertTrend(sortTrends(SubSeq(s, 1, Len(s) - 1)), s[Len(s)])

Orderings(s) ==
  {[i \in DOMAIN s |-> s[f[i]]] :
     f \in {g \in [DOMAIN s -> DOMAIN s] : \A i, j \in DOMAIN s : g[i] = g[j] => i = j}}

\* the results of Array.prototype.sort: the stable order under a consistent
\* comparator, an order of the engine's choosing under an inconsistent one
sortOutcomes(s) ==
  IF ConsistentComparator(s) THEN {sortTrends(s)} ELSE Orderings(s)

\* the values calculateTrends can return
calculateTrends(ls, studentId) ==
  sortOutcomes(trendEntries(filteredLogsOf(ls, studentId)))

----------------------------------------------------------------------------
(* generateRecommendations *)

\* the property names every plain object inherits from Object.prototype: a
\* lookup obj[name] of one of them finds the inherited member, which is truthy
\* and has neither push nor forEach
InheritedKeys ==
  {"constructor", "__proto__", "hasOwnProperty", "isPrototypeOf",
   "propertyIsEnumerable", "toLocaleString", "toString", "valueOf",
   "__defineGetter__", "__defineSetter__", "__lookupGetter__", "__lookupSetter__"}

CognitiveRules ==
  << [minScore |-> 100, maxScore |-> 200,
        recommendation |-> "Focus on foundational problem-solving skills",
        activity |-> "One-on-one problem-solving sessions",
        resources |-> <<"Math manipulatives", "Logic puzzles", "Step-by-step guides">>],
       [minScore |-> 200, maxScore |-> 300,
        recommendation |-> "Build critical thinking through guided activities",
        activity |-> "Small group problem-solving activities",
        resources |-> <<"Brain teasers", "Strategy games", "Discussion prompts">>] >>

SocialRules ==
  << [minScore |-> 100, maxScore |-> 200,
        recommendation |-> "Develop basic social interaction skills",
        activity |-> "Structured group activities with clear roles",
        resources |-> <<"Social stories", "Role-playing scenarios", "Team building games">>],
       [minScore |-> 200, maxScore |-> 300,
        recommendation |-> "Enhance collaboration and communication",
        activity |-> "Partner and small group projects",
        resources |-> <<"Collaborative games", "Communication exercises", "Peer mentoring">>] >>

EmotionalRules ==
  << [minScore |-> 100, maxScore |-> 200,
        recommendation |-> "Build emotional awareness and regulation",
        activity |-> "Mindfulness and emotional literacy activities",
        resources |-> <<"Emotion cards", "Breathing exercises", "Calm-down strategies">>],
       [minScore |-> 200, maxScore |-> 300,
        recommendation |-> "Strengthen resilience and self-confidence",
        activity |-> "Goal-setting and achievement activities",
        resources |-> <<"Confidence-building exercises", "Growth mindset activities", "Success journals">>] >>

CommunicationRules ==
  << [minScore |-> 100, maxScore |-> 200,
        recommendation |-> "Develop basic communication skills",
        activity |-> "Structured speaking and listening activities",
        resources |-> <<"Picture cards", "Sentence starters", "Listening games">>],
       [minScore |-> 200, maxScore |-> 300,
        recommendation |-> "Enhance verbal and non-verbal communication",
        activity |-> "Presentation and discussion activities",
        resources |-> <<"Public speaking exercises", "Body language activities", "Active listening practice">>] >>

CreativityRules ==
  << [minScore |-> 100, maxScore |-> 200,
        recommendation |-> "Encourage creative expression and imagination",
        activity |-> "Open-ended art and creative projects",
        resources |-> <<"Art supplies", "Creative prompts", "Imagination games">>],
       [minScore |-> 200, maxScore |-> 300,
        recommendation |-> "Foster innovative thinking and originality",
        activity |-> "Creative problem-solving challenges",
        resources |-> <<"Innovation challenges", "Creative thinking exercises", "Design thinking activities">>] >>

\* getRecommendationMap(): the rules of each canonical category, in order
getRecommendationMap ==
  [c \in Range(Categories) |->
     CASE c = "Cognitive Skills" -> CognitiveRules
       [] c = "Social Skills" -> SocialRules
       [] c = "Emotional Readiness" -> EmotionalRules
       [] c = "Communication" -> CommunicationRules
       [] c = "Creativity" -> CreativityRules]

\* recommendationMap[alert.category] || []
categoryRecommendationsOf(category) ==
  IF category \in DOMAIN getRecommendationMap THEN getRecommendationMap[category]
  ELSE <<>>

\* a <= b on exact fractions
FracAtMost(a, b) == ~FracLess(b, a)

\* the band test with both ends excluded
InBandExclusive(alert, rec) ==
  /\ FracLess(alert.score, Frac(rec.maxScore, 1))
  /\ FracLess(Frac(rec.minScore, 1), alert.score)

\* alert.score <= rec.maxScore && alert.score >= rec.minScore
InBand(alert, rec) ==
  /\ FracAtMost(alert.score, Frac(rec.maxScore, 1))
  /\ FracAtMost(Frac(rec.minScore, 1), alert.score)

recommendationOf(alert, rec) ==
  [studentId |-> alert.studentId,
   studentName |-> alert.studentName,
   category |-> alert.category,
   recommendation |-> rec.recommendation,
   activity |-> rec.activity,
   resources |-> rec.resources,
   priority |-> alert.severity]

\* the recommendations pushed for one alert, in rule order
alertRecommendations(alert) ==
  LET matching == SelectSeq(categoryRecommendationsOf(alert.category),
                            LAMBDA rec : InBand(alert, rec))
  IN  [i \in DOMAIN matching |-> recommendationOf(alert, matching[i])]

RECURSIVE collectRecommendations(_)
collectRecommendations(as) ==
  IF as = <<>> THEN <<>>
  ELSE alertRecommendations(Head(as)) \o collectRecommendations(Tail(as))

\* recommendationMap[alert.category] is an inherited member of the object, on
\* which forEach is not a function: the call throws a TypeError
recommendationsThrow(as) ==
  \E i \in DOMAIN as : as[i].category \in InheritedKeys

generateRecommendations(ls, as) == collectRecommendations(as)

----------------------------------------------------------------------------
(* TypeErrors of the accumulation loops *)

\* log.categories.forEach without the guard of a missing array, or scores of
\* an inherited name
scoresPushThrowsUnguarded(ls) ==
  \E i \in DOMAIN ls :
    \/ "categories" \notin DOMAIN ls[i]
    \/ \E j \in DOMAIN logCategories(ls[i]) :
         logCategories(ls[i])[j].category \in InheritedKeys

\* if (!scores[category]) scores[category] = []; scores[category].push(...):
\* for an inherited name the lookup is truthy, no array is stored, and push is
\* not a function; a record without a categories array is skipped
scoresPushThrows(ls) ==
  \E i \in DOMAIN ls :
    \E j \in DOMAIN logCategories(ls[i]) :
      logCategories(ls[i])[j].category \in InheritedKeys

trendsThrow(ls, studentId) == scoresPushThrows(filteredLogsOf(ls, studentId))

peerComparisonThrows(ls) == scoresPushThrows(ls)

----------------------------------------------------------------------------
(* Input record sets *)

MaxLogs == 6

StudentName(id) ==
  CASE id = "1" -> "Sarah Johnson"
    [] id = "2" -> "Mike Chen"
    [] id = "3" -> "Emma Davis"

CS(category, score) == [category |-> category, score |-> score]

\* records of one student scoring one category once: the windows of a pair
WindowScores == {100, 150, 200, 250, 275}

WindowMenu ==
  {[studentId |-> "1", categories |-> <<CS(Categories[1], s)>>] :
     s \in WindowScores}

\* records of two students with several categories and repeated categories
GroupCategories ==
  { <<CS(Categories[1], 200), CS(Categories[2], 100)>>,
    <<CS(Categories[2], 225), CS(Categories[1], 150), CS(Categories[1], 225)>>,
    <<CS(Categories[1], 100)>> }

GroupMenu ==
  {[studentId |-> "1", categories |-> c] : c \in GroupCategories}
    \cup {[studentId |-> "2",
           categories |-> <<CS(Categories[1], 200), CS(Categories[2], 100)>>]}

SeqsUpTo(S, n) == UNION {[1..k -> S] : k \in 0..n}

\* the records in storage order (oldest first) or newest first, as the demo
\* generator returns them
Stamp(payloads, newestFirst) ==
  [i \in DOMAIN payloads |->
     [studentId |-> payloads[i].studentId,
      studentName |-> StudentName(payloads[i].studentId),
      timestamp |-> IF newestFirst THEN Len(payloads) + 1 - i ELSE i,
      categories |-> payloads[i].categories]]

AlertInputs(n) ==
  {Stamp(p, d) : p \in SeqsUpTo(WindowMenu, n) \cup SeqsUpTo(GroupMenu, n),
                 d \in BOOLEAN}

MaxPeerLogs == 4

\* records of three students: one and two categories, a repeated category and
\* a category outside the canonical five
PeerCategories ==
  { <<CS("Motor Skills", 500), CS(Categories[1], 200)>>,
    <<CS(Categories[1], 300), CS(Categories[2], 300)>>,
    <<CS(Categories[1], 500), CS(Categories[2], 100), CS(Categories[1], 400)>> }

PeerMenu ==
  {[studentId |-> id, categories |-> c] : id \in {"1", "2", "3"}, c \in PeerCategories}

PeerInputs(n) == {Stamp(p, FALSE) : p \in SeqsUpTo(PeerMenu, n)}

MaxSingleLogs == 3

\* records of one student: the category lists above, a record with a
\* non-canonical category alone and one with a third canonical category
SingleMenu ==
  {[studentId |-> "1", categories |-> c] :
     c \in PeerCategories \cup { <<CS("Motor Skills", 300)>>,
                                 <<CS(Categories[3], 100)>> }}

SingleInputs(n) == {Stamp(p, FALSE) : p \in SeqsUpTo(SingleMenu, n)}

MaxPairLogs == 6

\* records of student 1 with one score of 2.0, 2.5 or 2.75, and records of
\* student 2 with a score of 1.0 in two categories
PairMenu ==
  {[studentId |-> "1", categories |-> <<CS(Categories[1], s)>>] : s \in {200, 250, 275}}
    \cup {[studentId |-> "2",
           categories |-> <<CS(Categories[1], 100), CS(Categories[2], 100)>>]}

PairInputs(n) == {Stamp(p, FALSE) : p \in SeqsUpTo(PairMenu, n)}

MaxSeverityLogs == 6

\* scores of one pair from the bottom to the top of the 1-5 scale
SeverityMenu ==
  {[studentId |-> "1", categories |-> <<CS(Categories[1], s)>>] :
     s \in {100, 150, 175, 500}}

\* the records in storage order and newest first
SeverityInputs ==
  {Stamp(p, d) : p \in SeqsUpTo(SeverityMenu, MaxSeverityLogs), d \in BOOLEAN}

----------------------------------------------------------------------------
(* generateDummyData, the records of student '2' *)

(* The alerts of a (student, category) pair depend on the records of that   *)
(* pair alone, so the demo records are modelled for student '2' and the     *)
(* categories of DemoCategories.  Math.random() is a choice: the noise      *)
(* (Math.random() - 0.5) * 0.5 lies in [-0.25, 0.25) and is drawn per week  *)
(* from NoiseValues, the number of observations of a week is 2 or 3.  The   *)
(* properties stated on these records concern the threshold alerts, whose  *)
(* comparisons with 2.5 are exact on doubles for these values.             *)

\* the categories of CATEGORIES whose records are modelled, in their order
DemoCategories == <<"Cognitive Skills", "Social Skills", "Creativity">>

\* generateStudentPattern('2'): the six weekly scores of each category
MikePattern ==
  [c \in Range(Categories) |->
     CASE c = "Cognitive Skills" -> <<210, 200, 190, 180, 170, 160>>
       [] c = "Social Skills" -> <<250, 240, 230, 220, 210, 200>>
       [] c = "Emotional Readiness" -> <<200, 190, 180, 170, 160, 150>>
       [] c = "Communication" -> <<230, 220, 210, 200, 190, 180>>
       [] c = "Creativity" -> <<280, 270, 260, 250, 240, 230>>]

NoiseValues == {-25, 0, 24}

\* Math.max(1, Math.min(5, x))
ClampScore(x) == IF x < 100 THEN 100 ELSE IF x > 500 THEN 500 ELSE x

\* generateTimestamps(): six days a week apart, the last one today
WeekDay(weekIndex) == 1 + 7 * (weekIndex - 1)

\* the records pushed for one category of one week
demoObservations(weekIndex, category, noise, observationsPerWeek) ==
  [obs \in 1..observationsPerWeek |->
     [studentId |-> "2",
      studentName |-> StudentName("2"),
      timestamp |-> WeekDay(weekIndex),
      categories |->
        <<CS(category, ClampScore(MikePattern[category][weekIndex] + noise[weekIndex]))>>]]

RECURSIVE demoWeek(_, _, _, _)
\* CATEGORIES.forEach for one week, from category number n on
demoWeek(weekIndex, n, noise, observationsPerWeek) ==
  IF n > Len(DemoCategories) THEN <<>>
  ELSE demoObservations(weekIndex, DemoCategories[n], noise, observationsPerWeek)
         \o demoWeek(weekIndex, n + 1, noise, observationsPerWeek)

RECURSIVE demoLogs(_, _, _)
\* timestamps.forEach, from week number weekIndex on
demoLogs(weekIndex, noise, observationsPerWeek) ==
  IF weekIndex > 6 THEN <<>>
  ELSE demoWeek(weekIndex, 1, noise, observationsPerWeek)
         \o demoLogs(weekIndex + 1, noise, observationsPerWeek)

\* the comparator of the final sort: b's time minus a's, "a after b"
LogAfter(a, b) == b.timestamp - a.timestamp > 0

RECURSIVE InsertLog(_, _)
InsertLog(s, x) ==
  IF s = <<>> THEN <<x>>
  ELSE IF LogAfter(s[Len(s)], x)
       THEN Append(InsertLog(SubSeq(s, 1, Len(s) - 1), x), s[Len(s)])
       ELSE Append(s, x)

RECURSIVE sortLogs(_)
\* logs.sort(...): newest first, records of one week in the order pushed
sortLogs(s) ==
  IF s = <<>> THEN <<>>
  ELSE InsertLog(sortLogs(SubSeq(s, 1, Len(s) - 1)), s[Len(s)])

generateDummyData(noise, observationsPerWeek) ==
  sortLogs(demoLogs(1, noise, observationsPerWeek))

\* the draws of Math.random(): a noise for each week
DemoNoises == [1..6 -> NoiseValues]

MaxTrendLogs == 3

\* 3 and 10 January 2024 (weeks 1 and 2 of a month that starts on a Monday)
\* and 7 February 2024 (week 2 of a month that starts on a Thursday)
TrendDays == {3, 10, 38}

\* two categories in one record, one of them repeated
TrendCategories ==
  <<CS(Categories[1], 400), CS(Categories[2], 300), CS(Categories[1], 250)>>

\* records of student 1 on the three days and of student 2 in either month,
\* in any order of arrival
TrendMenu ==
  {[studentId |-> "1", timestamp |-> d, categories |-> <<CS(Categories[1], 200)>>] :
     d \in TrendDays}
    \cup {[studentId |-> id, timestamp |-> 3, categories |-> TrendCategories] :
            id \in {"1", "2"}}
    \cup {[studentId |-> "2", timestamp |-> 38, categories |-> TrendCategories]}

Named(payloads) ==
  [i \in DOMAIN payloads |->
     [studentId |-> payloads[i].studentId,
      studentName |-> StudentName(payloads[i].studentId),
      timestamp |-> payloads[i].timestamp,
      categories |-> payloads[i].categories]]

TrendInputs(n) == {Named(p) : p \in SeqsUpTo(TrendMenu, n)}

MaxAlerts == 4

AlertOf(id, type, category, severity, score) ==
  [studentId |-> id, studentName |-> StudentName(id),
   alertType |-> type, category |-> category, severity |-> severity,
   score |-> score, threshold |-> Frac(ScoreThreshold, 1), trend |-> Frac(0, 1)]

\* alerts with a score below 2, of exactly 2, between 2 and 3, of exactly 3
\* and above 3, and one of a category that has no rules
AlertMenu ==
  { AlertOf("1", "threshold", Categories[1], "high", Frac(100, 1)),
    AlertOf("1", "threshold", Categories[1], "low", Frac(200, 1)),
    AlertOf("2", "decline", Categories[2], "medium", Frac(625, 3)),
    AlertOf("2", "decline", Categories[2], "low", Frac(300, 1)),
    AlertOf("1", "decline", Categories[1], "medium", Frac(325, 1)),
    AlertOf("2", "threshold", "Motor Skills", "medium", Frac(150, 1)) }

RecommendationInputs(n) == SeqsUpTo(AlertMenu, n)

MaxAnalyticsLogs == 4

\* a record without a categories array, records with a category outside the
\* canonical five, alone and beside a canonical one, and a record whose
\* category bears the name of an inherited member
AnalyticsMenu ==
  { [studentId |-> "1"],
    [studentId |-> "1", categories |-> <<CS("Motor Skills", 100)>>],
    [studentId |-> "1",
     categories |-> <<CS(Categories[1], 100), CS("Motor Skills", 500)>>],
    [studentId |-> "1", categories |-> <<CS("constructor", 300)>>],
    [studentId |-> "2", categories |-> <<CS(Categories[1], 200)>>],
    [studentId |-> "2", categories |-> <<CS("Motor Skills", 100)>>] }

\* the records in storage order, one a day from 1 January 2024
Dated(payloads) ==
  [i \in DOMAIN payloads |->
     IF "categories" \in DOMAIN payloads[i]
     THEN [studentId |-> payloads[i].studentId,
           studentName |-> StudentName(payloads[i].studentId),
           timestamp |-> i,
           categories |-> payloads[i].categories]
     ELSE [studentId |-> payloads[i].studentId,
           studentName |-> StudentName(payloads[i].studentId),
           timestamp |-> i]]

AnalyticsInputs(n) == {Dated(p) : p \in SeqsUpTo(AnalyticsMenu, n)}

MaxAnalyticsAlerts == 2

\* alerts as a caller may hand them to generateRecommendations
AnalyticsAlertMenu ==
  AlertMenu \cup
    { AlertOf("1", "threshold", "constructor", "high", Frac(100, 1)),
      AlertOf("2", "threshold", "Motor Skills", "low", Frac(200, 1)) }

AnalyticsAlertInputs(n) == SeqsUpTo(AnalyticsAlertMenu, n)

----------------------------------------------------------------------------
(* AuthManager.login: failed attempts and lockout *)

(* Time is counted in ticks of a quarter of an hour from tick 1.  A stored  *)
(* value of 0 stands for a setting that is absent or null: attempts 0 is no *)
(* record of attempts, lockedUntil 0 is no lockout.  The records are those  *)
(* of one email; the keys of another email are other settings.  A login()  *)
(* call runs up to its next await in one step; the calls in flight         *)
(* interleave at their awaits, as calls of one page or of two pages on the  *)
(* same store do.                                                          *)

maxLoginAttempts == 5

\* 30 minutes
lockoutDuration == 2

MaxCallers == 2

MaxTime == 4

Callers == 1..MaxCallers

\* a call that has not started or has returned to its caller
IdleCall ==
  [at |-> "idle", valid |-> FALSE, lockoutData |-> 0, count |-> 0,
   late |-> FALSE, bound |-> FALSE, asked |-> FALSE, result |-> ""]

\* checkLockout: lockoutData && lockoutData.lockedUntil > Date.now()
locked(lockoutData, time) == lockoutData # 0 /\ lockoutData > time

\* login(credentials) up to the first await: checkLockout has asked the
\* store for the lockout record.  late: a lockout was recorded before
Login(p, valid) ==
  /\ calls[p].at = "idle"
  /\ calls' = [calls EXCEPT ![p] =
       [IdleCall EXCEPT !.at = "checkLockout", !.valid = valid,
                        !.lockoutData = settings.lockedUntil,
                        !.late = lockDue # 0]]
  /\ UNCHANGED <<settings, now, lockDue>>
  /\ UNCHANGED <<analyticsVars, clicked, syncVars>>

\* the lockout record has arrived: the call returns 'Account locked' or asks
\* the backend.  bound: the call is later than a recorded lockout whose
\* duration has not elapsed
CheckLockout(p) ==
  /\ calls[p].at = "checkLockout"
  /\ calls' = [calls EXCEPT ![p] =
       IF locked(calls[p].lockoutData, now)
       THEN [@ EXCEPT !.at = "done", !.result = "Account locked",
                      !.bound = calls[p].late /\ lockDue > now]
       ELSE [@ EXCEPT !.at = "mockLogin", !.asked = TRUE,
                      !.bound = calls[p].late /\ lockDue > now]]
  /\ UNCHANGED <<settings, now, lockDue>>
  /\ UNCHANGED <<analyticsVars, clicked, syncVars>>

\* the backend has answered.  On success the session is stored and
\* clearLoginAttempts begins; on failure trackLoginAttempt asks the store for
\* the attempts record
MockLoginReturns(p) ==
  /\ calls[p].at = "mockLogin"
  /\ calls' = [calls EXCEPT ![p] =
       IF calls[p].valid
       THEN [@ EXCEPT !.at = "clearAttempts"]
       ELSE [@ EXCEPT !.at = "trackLoginAttempt", !.count = settings.attempts]]
  /\ UNCHANGED <<settings, now, lockDue>>
  /\ UNCHANGED <<analyticsVars, clicked, syncVars>>

\* clearLoginAttempts: setSetting(attemptsKey, null)
ClearAttempts(p) ==
  /\ calls[p].at = "clearAttempts"
  /\ settings' = [settings EXCEPT !.attempts = 0]
  /\ calls' = [calls EXCEPT ![p].at = "clearLockout"]
  /\ UNCHANGED <<now, lockDue>>
  /\ UNCHANGED <<analyticsVars, clicked, syncVars>>

\* clearLoginAttempts: setSetting(lockoutKey, null), and login returns
ClearLockout(p) ==
  /\ calls[p].at = "clearLockout"
  /\ settings' = [settings EXCEPT !.lockedUntil = 0]
  /\ calls' = [calls EXCEPT ![p].at = "done", ![p].result = "success"]
  /\ UNCHANGED <<now, lockDue>>
  /\ UNCHANGED <<analyticsVars, clicked, syncVars>>

\* trackLoginAttempt after the attempts record has arrived: the count goes
\* up by one and either the lockout or the new count is stored
TrackLoginAttempt(p) ==
  /\ calls[p].at = "trackLoginAttempt"
  /\ IF calls[p].count + 1 >= maxLoginAttempts
     THEN /\ settings' = [settings EXCEPT !.lockedUntil = now + lockoutDuration]
          /\ lockDue' = now + lockoutDuration
          /\ calls' = [calls EXCEPT ![p].at = "clearAfterLockout"]
     ELSE /\ settings' = [settings EXCEPT !.attempts = calls[p].count + 1]
          /\ calls' = [calls EXCEPT ![p].at = "done",
                                    ![p].result = "Invalid credentials"]
          /\ UNCHANGED lockDue
  /\ UNCHANGED now
  /\ UNCHANGED <<analyticsVars, clicked, syncVars>>

\* trackLoginAttempt: setSetting(attemptsKey, null) after the lockout, and
\* login returns
ClearAfterLockout(p) ==
  /\ calls[p].at = "clearAfterLockout"
  /\ settings' = [settings EXCEPT !.attempts = 0]
  /\ calls' = [calls EXCEPT ![p].at = "done", ![p].result = "Invalid credentials"]
  /\ UNCHANGED <<now, lockDue>>
  /\ UNCHANGED <<analyticsVars, clicked, syncVars>>

\* the caller has the result of the call and may call again
Return(p) ==
  /\ calls[p].at = "done"
  /\ calls' = [calls EXCEPT ![p] = IdleCall]
  /\ UNCHANGED <<settings, now, lockDue>>
  /\ UNCHANGED <<analyticsVars, clicked, syncVars>>

\* a quarter of an hour passes
Tick ==
  /\ now < MaxTime
  /\ now' = now + 1
  /\ UNCHANGED <<settings, calls, lockDue>>
  /\ UNCHANGED <<analyticsVars, clicked, syncVars>>

----------------------------------------------------------------------------
(* SyncManager.sync and the sync queue *)

(* A sync() call runs up to its next await in one step, and the calls in    *)
(* flight interleave at their awaits.  A request to the store takes effect  *)
(* in the step that issues it.  The items of a batch are processed          *)
(* together (Promise.allSettled), each with its own position.  The queue    *)
(* never holds more than batchSize items, so a run has one batch, and the   *)
(* order prioritizeQueue gives the batch does not show.                     *)

maxRetries == 3

MaxRunners == 2

MaxItems == 1

Runners == 1..MaxRunners

Items == 1..MaxItems

\* a sync() that has not been called or has returned
IdleRun == [at |-> "idle", force |-> FALSE, queue |-> <<>>, items |-> <<>>]

\* addToSyncQueue: a new item, with an id of its own and no retries
AddToSyncQueue(i) ==
  /\ i \notin history.added
  /\ syncQueue' = [syncQueue EXCEPT ![i] = 0]
  /\ history' = [history EXCEPT !.added = @ \cup {i}]
  /\ UNCHANGED <<status, runs>>
  /\ UNCHANGED <<analyticsVars, clicked, authVars>>

\* sync(force) up to the first await: the call returns when a sync is in
\* progress and it is not forced, and asks isOnline() otherwise
Sync(r, force) ==
  /\ runs[r].at \in {"idle", "returned"}
  /\ runs' = [runs EXCEPT ![r] =
       IF status.isSyncing /\ ~force
       THEN [IdleRun EXCEPT !.at = "returned"]
       ELSE [IdleRun EXCEPT !.at = "isOnline", !.force = force]]
  /\ UNCHANGED <<status, syncQueue, history>>
  /\ UNCHANGED <<analyticsVars, clicked, authVars>>

\* isOnline() has answered: offline the call returns; online it sets
\* isSyncing and performSync asks the store for the queue
IsOnline(r, online) ==
  /\ runs[r].at = "isOnline"
  /\ IF online
     THEN /\ status' = [status EXCEPT !.isSyncing = TRUE]
          /\ runs' = [runs EXCEPT ![r].at = "getSyncQueue", ![r].queue = syncQueue]
     ELSE /\ runs' = [runs EXCEPT ![r] = [IdleRun EXCEPT !.at = "returned"]]
          /\ UNCHANGED status
  /\ UNCHANGED <<syncQueue, history>>
  /\ UNCHANGED <<analyticsVars, clicked, authVars>>

\* queue.filter(item => item.retries < this.config.maxRetries)
prioritizeQueue(queue) == {i \in Items : queue[i] >= 0 /\ queue[i] < maxRetries}

\* the queue has arrived: processBatch starts processSyncItem for every item
\* of the batch, each up to its apiRequest
PerformSync(r) ==
  /\ runs[r].at = "getSyncQueue"
  /\ LET batch == prioritizeQueue(runs[r].queue)
     IN  /\ runs' = [runs EXCEPT ![r].at = "processBatch",
                                 ![r].items = [i \in batch |->
                                   [at |-> "apiRequest", retries |-> runs[r].queue[i],
                                    item |-> -1]]]
         /\ history' = [history EXCEPT !.sent = [i \in Items |->
                                         IF i \in batch THEN @[i] + 1 ELSE @[i]]]
  /\ UNCHANGED <<status, syncQueue>>
  /\ UNCHANGED <<analyticsVars, clicked, authVars>>

\* the server has answered the request of item i.  On success
\* removeSyncQueueItem deletes the item; on failure incrementSyncRetries asks
\* the store for it
ApiResponds(r, i, ok) ==
  /\ runs[r].at = "processBatch"
  /\ i \in DOMAIN runs[r].items
  /\ runs[r].items[i].at = "apiRequest"
  /\ IF ok
     THEN /\ syncQueue' = [syncQueue EXCEPT ![i] = -1]
          /\ runs' = [runs EXCEPT ![r].items[i].at = "markAsSynced"]
          /\ history' = [history EXCEPT !.synced = @ \cup {i}]
     ELSE /\ runs' = [runs EXCEPT ![r].items[i].at = "incrementSyncRetries",
                                 ![r].items[i].item = syncQueue[i]]
          /\ UNCHANGED <<syncQueue, history>>
  /\ UNCHANGED status
  /\ UNCHANGED <<analyticsVars, clicked, authVars>>

\* the item is deleted: markAsSynced, and processSyncItem returns
MarkAsSynced(r, i) ==
  /\ runs[r].at = "processBatch"
  /\ i \in DOMAIN runs[r].items
  /\ runs[r].items[i].at = "markAsSynced"
  /\ runs' = [runs EXCEPT ![r].items[i].at = "settled"]
  /\ UNCHANGED <<status, syncQueue, history>>
  /\ UNCHANGED <<analyticsVars, clicked, authVars>>

\* incrementSyncRetries after the item has arrived: if (item) it is put back
\* with one more retry
IncrementSyncRetries(r, i) ==
  /\ runs[r].at = "processBatch"
  /\ i \in DOMAIN runs[r].items
  /\ runs[r].items[i].at = "incrementSyncRetries"
  /\ syncQueue' = IF runs[r].items[i].item >= 0
                  THEN [syncQueue EXCEPT ![i] = runs[r].items[i].item + 1]
                  ELSE syncQueue
  /\ runs' = [runs EXCEPT ![r].items[i].at = "maxRetries"]
  /\ UNCHANGED <<status, history>>
  /\ UNCHANGED <<analyticsVars, clicked, authVars>>

\* if (item.retries + 1 >= this.config.maxRetries) the item is deleted;
\* otherwise processSyncItem throws
RemoveAtMaxRetries(r, i) ==
  /\ runs[r].at = "processBatch"
  /\ i \in DOMAIN runs[r].items
  /\ runs[r].items[i].at = "maxRetries"
  /\ IF runs[r].items[i].retries + 1 >= maxRetries
     THEN /\ syncQueue' = [syncQueue EXCEPT ![i] = -1]
          /\ runs' = [runs EXCEPT ![r].items[i].at = "failedItems"]
     ELSE /\ runs' = [runs EXCEPT ![r].items[i].at = "settled"]
          /\ UNCHANGED syncQueue
  /\ UNCHANGED <<status, history>>
  /\ UNCHANGED <<analyticsVars, clicked, authVars>>

\* this.status.failedItems++, and processSyncItem throws
CountFailedItem(r, i) ==
  /\ runs[r].at = "processBatch"
  /\ i \in DOMAIN runs[r].items
  /\ runs[r].items[i].at = "failedItems"
  /\ status' = [status EXCEPT !.failedItems = @ + 1]
  /\ history' = [history EXCEPT !.failed[i] = @ + 1]
  /\ runs' = [runs EXCEPT ![r].items[i].at = "settled"]
  /\ UNCHANGED syncQueue
  /\ UNCHANGED <<analyticsVars, clicked, authVars>>

\* every item of the batch is settled: performSync ends, and the finally
\* block of sync() clears isSyncing
FinishSync(r) ==
  /\ runs[r].at = "processBatch"
  /\ \A i \in DOMAIN runs[r].items : runs[r].items[i].at = "settled"
  /\ status' = [status EXCEPT !.isSyncing = FALSE]
  /\ runs' = [runs EXCEPT ![r] = [IdleRun EXCEPT !.at = "returned"]]
  /\ UNCHANGED <<syncQueue, history>>
  /\ UNCHANGED <<analyticsVars, clicked, authVars>>

----------------------------------------------------------------------------
(* The application before any of its handlers has run *)

InitApp ==
  /\ clicked = <<>>
  /\ settings = [attempts |-> 0, lockedUntil |-> 0]
  /\ now = 1
  /\ calls = [p \in Callers |-> IdleCall]
  /\ lockDue = 0
  /\ status = [isSyncing |-> FALSE, failedItems |-> 0]
  /\ syncQueue = [i \in Items |-> -1]
  /\ runs = [r \in Runners |-> IdleRun]
  /\ history = [added |-> {}, synced |-> {},
                sent |-> [i \in Items |-> 0], failed |-> [i \in Items |-> 0]]

----------------------------------------------------------------------------
(* Specification of the login calls *)

InitAuth ==
  /\ logs = <<>>
  /\ selectedStudent = ""
  /\ trends = <<>>
  /\ peerComparisons = <<>>
  /\ alerts = <<>>
  /\ recommendations = <<>>
  /\ pc = "start"
  /\ InitApp

NextAuth ==
  \/ \E p \in Callers, valid \in BOOLEAN : Login(p, valid)
  \/ \E p \in Callers : CheckLockout(p)
  \/ \E p \in Callers : MockLoginReturns(p)
  \/ \E p \in Callers : ClearAttempts(p)
  \/ \E p \in Callers : ClearLockout(p)
  \/ \E p \in Callers : TrackLoginAttempt(p)
  \/ \E p \in Callers : ClearAfterLockout(p)
  \/ \E p \in Callers : Return(p)
  \/ Tick

SpecAuth == InitAuth /\ [][NextAuth]_vars

----------------------------------------------------------------------------
(* Specification of the sync calls *)

InitSync ==
  /\ logs = <<>>
  /\ selectedStudent = ""
  /\ trends = <<>>
  /\ peerComparisons = <<>>
  /\ alerts = <<>>
  /\ recommendations = <<>>
  /\ pc = "start"
  /\ InitApp

NextSync ==
  \/ \E i \in Items : AddToSyncQueue(i)
  \/ \E r \in Runners, force \in BOOLEAN : Sync(r, force)
  \/ \E r \in Runners, online \in BOOLEAN : IsOnline(r, online)
  \/ \E r \in Runners : PerformSync(r)
  \/ \E r \in Runners, i \in Items, ok \in BOOLEAN : ApiResponds(r, i, ok)
  \/ \E r \in Runners, i \in Items : MarkAsSynced(r, i)
  \/ \E r \in Runners, i \in Items : IncrementSyncRetries(r, i)
  \/ \E r \in Runners, i \in Items : RemoveAtMaxRetries(r, i)
  \/ \E r \in Runners, i \in Items : CountFailedItem(r, i)
  \/ \E r \in Runners : FinishSync(r)

SpecSync == InitSync /\ [][NextSync]_vars

----------------------------------------------------------------------------
(* Specification of the alert generator *)

InitAlerts ==
  /\ logs \in AlertInputs(MaxLogs)
  /\ selectedStudent = ""
  /\ trends = <<>>
  /\ peerComparisons = <<>>
  /\ alerts = <<>>
  /\ recommendations = <<>>
  /\ pc = "start"
  /\ InitApp

GenerateInterventionAlerts ==
  /\ pc = "start"
  /\ alerts' = generateInterventionAlerts(logs)
  /\ pc' = "alerts"
  /\ UNCHANGED <<logs, selectedStudent, trends, peerComparisons, recommendations>>
  /\ UNCHANGED appVars

NextAlerts == GenerateInterventionAlerts

SpecAlerts == InitAlerts /\ [][NextAlerts]_vars

----------------------------------------------------------------------------
(* Specification of the alert generator on records in storage order *)

InitPairs ==
  /\ logs \in PairInputs(MaxPairLogs)
  /\ selectedStudent = ""
  /\ trends = <<>>
  /\ peerComparisons = <<>>
  /\ alerts = <<>>
  /\ recommendations = <<>>
  /\ pc = "start"
  /\ InitApp

NextPairs == GenerateInterventionAlerts

SpecPairs == InitPairs /\ [][NextPairs]_vars

----------------------------------------------------------------------------
(* Specification of the alert generator on scores across the scale *)

InitSeverities ==
  /\ logs \in SeverityInputs
  /\ selectedStudent = ""
  /\ trends = <<>>
  /\ peerComparisons = <<>>
  /\ alerts = <<>>
  /\ recommendations = <<>>
  /\ pc = "start"
  /\ InitApp

NextSeverities == GenerateInterventionAlerts

SpecSeverities == InitSeverities /\ [][NextSeverities]_vars

----------------------------------------------------------------------------
(* Specification of the alert generator on the demo records *)

InitDemo ==
  /\ logs = <<>>
  /\ selectedStudent = ""
  /\ trends = <<>>
  /\ peerComparisons = <<>>
  /\ alerts = <<>>
  /\ recommendations = <<>>
  /\ pc = "empty"
  /\ InitApp

GenerateDummyData ==
  /\ pc = "empty"
  /\ \E noise \in DemoNoises, observationsPerWeek \in {2, 3} :
       logs' = generateDummyData(noise, observationsPerWeek)
  /\ pc' = "start"
  /\ UNCHANGED <<selectedStudent, trends, peerComparisons, alerts, recommendations>>
  /\ UNCHANGED appVars

NextDemo == GenerateDummyData \/ GenerateInterventionAlerts

SpecDemo == InitDemo /\ [][NextDemo]_vars

----------------------------------------------------------------------------
(* Specification of the peer comparator *)

InitPeer ==
  /\ logs \in PeerInputs(MaxPeerLogs)
  /\ selectedStudent = ""
  /\ trends = <<>>
  /\ peerComparisons = <<>>
  /\ alerts = <<>>
  /\ recommendations = <<>>
  /\ pc = "start"
  /\ InitApp

CalculatePeerComparison ==
  /\ pc = "start"
  /\ IF peerComparisonThrows(logs)
     THEN pc' = "threw" /\ UNCHANGED peerComparisons
     ELSE /\ peerComparisons' = calculatePeerComparison(logs)
          /\ pc' = "peers"
  /\ UNCHANGED <<logs, selectedStudent, trends, alerts, recommendations>>
  /\ UNCHANGED appVars

NextPeer == CalculatePeerComparison

SpecPeer == InitPeer /\ [][NextPeer]_vars

----------------------------------------------------------------------------
(* Specification of the peer comparator on a cohort of one *)

InitSingle ==
  /\ logs \in SingleInputs(MaxSingleLogs)
  /\ selectedStudent = ""
  /\ trends = <<>>
  /\ peerComparisons = <<>>
  /\ alerts = <<>>
  /\ recommendations = <<>>
  /\ pc = "start"
  /\ InitApp

NextSingle == CalculatePeerComparison

SpecSingle == InitSingle /\ [][NextSingle]_vars

----------------------------------------------------------------------------
(* Specification of the trend aggregator *)

InitTrends ==
  /\ logs \in TrendInputs(MaxTrendLogs)
  /\ selectedStudent \in {"", "1"}
  /\ trends = <<>>
  /\ peerComparisons = <<>>
  /\ alerts = <<>>
  /\ recommendations = <<>>
  /\ pc = "start"
  /\ InitApp

\* the aggregation with the filter applied to the caller's array in place
CalculateTrendsFilteringInPlace ==
  /\ pc = "start"
  /\ IF trendsThrow(logs, selectedStudent)
     THEN pc' = "threw" /\ UNCHANGED trends
     ELSE /\ trends' \in calculateTrends(logs, selectedStudent)
          /\ pc' = "trends"
  /\ logs' = filteredLogsOf(logs, selectedStudent)
  /\ UNCHANGED <<selectedStudent, peerComparisons, alerts, recommendations>>
  /\ UNCHANGED appVars

CalculateTrends ==
  /\ pc = "start"
  /\ IF trendsThrow(logs, selectedStudent)
     THEN pc' = "threw" /\ UNCHANGED trends
     ELSE /\ trends' \in calculateTrends(logs, selectedStudent)
          /\ pc' = "trends"
  /\ UNCHANGED <<logs, selectedStudent, peerComparisons, alerts, recommendations>>
  /\ UNCHANGED appVars

NextTrends == CalculateTrends

SpecTrends == InitTrends /\ [][NextTrends]_vars

----------------------------------------------------------------------------
(* Specification of the recommendation generator *)

InitRecommendations ==
  /\ logs = <<>>
  /\ selectedStudent = ""
  /\ trends = <<>>
  /\ peerComparisons = <<>>
  /\ alerts \in RecommendationInputs(MaxAlerts)
  /\ recommendations = <<>>
  /\ pc = "start"
  /\ InitApp

GenerateRecommendations ==
  /\ pc = "start"
  /\ IF recommendationsThrow(alerts)
     THEN pc' = "threw" /\ UNCHANGED recommendations
     ELSE /\ recommendations' = generateRecommendations(logs, alerts)
          /\ pc' = "recommendations"
  /\ UNCHANGED <<logs, selectedStudent, trends, peerComparisons, alerts>>
  /\ UNCHANGED appVars

NextRecommendations == GenerateRecommendations

SpecRecommendations == InitRecommendations /\ [][NextRecommendations]_vars

----------------------------------------------------------------------------
(* Specification of one call of any of the four functions *)

InitAnalytics ==
  /\ \/ /\ logs \in AnalyticsInputs(MaxAnalyticsLogs)
        /\ selectedStudent \in {"", "1"}
        /\ alerts = <<>>
     \/ /\ logs = <<>>
        /\ selectedStudent = ""
        /\ alerts \in AnalyticsAlertInputs(MaxAnalyticsAlerts)
  /\ trends = <<>>
  /\ peerComparisons = <<>>
  /\ recommendations = <<>>
  /\ pc = "start"
  /\ InitApp

NextAnalytics ==
  \/ CalculateTrends
  \/ CalculatePeerComparison
  \/ GenerateInterventionAlerts
  \/ GenerateRecommendations

SpecAnalytics == InitAnalytics /\ [][NextAnalytics]_vars

----------------------------------------------------------------------------
(* Dashboard page: the alert list and its dismiss buttons *)

(* A template string is kept as the sequence of its pieces.  No student id, *)
(* category name or index of the records below holds a hyphen, so two       *)
(* template strings are the same text exactly when their pieces are equal.  *)

\* `${alert.studentId}-${alert.category}`, the text handleDismissAlert
\* compares with the id it is given
alertKey(alert) == <<alert.studentId, "-", alert.category>>

\* `${alert.studentId}-${alert.category}-${index}`, the text the dismiss
\* button of InterventionAlerts passes to onDismiss; index counts from 0
dismissId(alert, index) == <<alert.studentId, "-", alert.category, "-", index>>

\* prev.filter(alert => `${alert.studentId}-${alert.category}` !== alertId)
handleDismissAlert(prev, alertId) ==
  SelectSeq(prev, LAMBDA alert : alertKey(alert) # alertId)

MaxDashboardLogs == 4

\* records of two students in storage order; three records of student 2
\* give that student a threshold alert in each of two categories
DashboardInputs(n) == {Stamp(p, FALSE) : p \in SeqsUpTo(PairMenu, n)}

InitDashboard ==
  /\ logs \in DashboardInputs(MaxDashboardLogs)
  /\ selectedStudent = ""
  /\ trends = <<>>
  /\ peerComparisons = <<>>
  /\ alerts = <<>>
  /\ recommendations = <<>>
  /\ pc = "start"
  /\ InitApp

\* the effect that runs when the records are loaded: the four results are
\* computed and stored in the page's state
CalculateAnalytics ==
  /\ pc = "start"
  /\ logs # <<>>
  /\ IF \/ trendsThrow(logs, selectedStudent)
        \/ peerComparisonThrows(logs)
        \/ recommendationsThrow(generateInterventionAlerts(logs))
     THEN /\ pc' = "threw"
          /\ UNCHANGED <<trends, peerComparisons, alerts, recommendations>>
     ELSE /\ trends' \in calculateTrends(logs, selectedStudent)
          /\ peerComparisons' = calculatePeerComparison(logs)
          /\ alerts' = generateInterventionAlerts(logs)
          /\ recommendations' = generateRecommendations(logs, alerts')
          /\ pc' = "shown"
  /\ UNCHANGED <<logs, selectedStudent, appVars>>

\* a press of the dismiss button of the alert displayed at place i
DismissAlert(i) ==
  /\ pc \in {"shown", "dismissed"}
  /\ i \in DOMAIN alerts
  /\ alerts' = handleDismissAlert(alerts, dismissId(alerts[i], i - 1))
  /\ clicked' = [index |-> i, alert |-> alerts[i], shown |-> alerts]
  /\ pc' = "dismissed"
  /\ UNCHANGED <<logs, selectedStudent, trends, peerComparisons, recommendations>>
  /\ UNCHANGED <<authVars, syncVars>>

NextDashboard ==
  \/ CalculateAnalytics
  \/ \E i \in DOMAIN alerts : DismissAlert(i)

SpecDashboard == InitDashboard /\ [][NextDashboard]_vars

----------------------------------------------------------------------------
(* Vocabulary of the properties of the alert generator *)

StudentsIn == {logs[i].studentId : i \in DOMAIN logs}

CategorySet == Range(Categories)

\* the records of a student that hold at least one entry of the category
RecordsWith(sid, c) ==
  {i \in DOMAIN logs :
     /\ logs[i].studentId = sid
     /\ \E j \in DOMAIN logCategories(logs[i]) :
           logCategories(logs[i])[j].category = c}

\* the score entries of a pair, each named by its record and its place in it
EntriesOf(sid, c) ==
  UNION {{<<i, j>> : j \in {k \in DOMAIN logCategories(logs[i]) :
                               logCategories(logs[i])[k].category = c}} :
           i \in {r \in DOMAIN logs : logs[r].studentId = sid}}

\* the score entries of a set of records, all of them or those of a category
EntriesIn(R) ==
  UNION {{<<i, j>> : j \in DOMAIN logCategories(logs[i])} : i \in R}

EntriesWith(R, c) ==
  {e \in EntriesIn(R) : logs[e[1]].categories[e[2]].category = c}

CategoriesIn(R) == {logs[e[1]].categories[e[2]].category : e \in EntriesIn(R)}

EntryBefore(e, f) ==
  \/ logs[e[1]].timestamp < logs[f[1]].timestamp
  \/ /\ logs[e[1]].timestamp = logs[f[1]].timestamp
     /\ \/ e[1] < f[1]
        \/ e[1] = f[1] /\ e[2] < f[2]

RECURSIVE ChronoSeq(_)
\* the scores of a set of entries, oldest record first
ChronoSeq(E) ==
  IF E = {} THEN <<>>
  ELSE LET m == CHOOSE e \in E : \A f \in E \ {e} : EntryBefore(e, f)
       IN  <<logs[m[1]].categories[m[2]].score>> \o ChronoSeq(E \ {m})

ChronoScores(sid, c) == ChronoSeq(EntriesOf(sid, c))

\* every entry of the pair has a timestamp of its own
DistinctStamps(sid, c) ==
  \A e, f \in EntriesOf(sid, c) :
     e # f => logs[e[1]].timestamp # logs[f[1]].timestamp

BagOf(s) == [v \in Range(s) |-> Cardinality({i \in DOMAIN s : s[i] = v})]

LastN(s, n) == SubSeq(s, IF Len(s) > n THEN Len(s) - n + 1 ELSE 1, Len(s))

\* the scores of a pair in the order in which the generator windows them
PairScores(sid, c) == scoresOf(studentLogsOf(logs, sid), c)

AlertsOf(sid, c, type) ==
  SelectSeq(alerts, LAMBDA a :
     a.studentId = sid /\ a.category = c /\ a.alertType = type)

FirstRecord(sid) ==
  CHOOSE i \in DOMAIN logs :
     logs[i].studentId = sid /\ \A k \in 1..(i - 1) : logs[k].studentId # sid

CategoryIndex(c) == CHOOSE n \in DOMAIN Categories : Categories[n] = c

SeverityRank(a) ==
  IF a.severity = "high" THEN 3 ELSE IF a.severity = "medium" THEN 2 ELSE 1

\* alert a is produced before alert b by the loops over students and categories
EncounteredBefore(a, b) ==
  \/ FirstRecord(a.studentId) < FirstRecord(b.studentId)
  \/ /\ a.studentId = b.studentId
     /\ \/ CategoryIndex(a.category) < CategoryIndex(b.category)
        \/ /\ a.category = b.category
           /\ a.alertType = "decline"
           /\ b.alertType = "threshold"

----------------------------------------------------------------------------
(* Properties of the alert generator *)

\* C1: the windows of every evaluated pair are chronological: 'recent' holds
\* the three scores with the latest record timestamps and 'older' the three
\* before them (stated for pairs whose entries all have distinct timestamps).
C1_ChronologicalWindows ==
  pc = "alerts" =>
    \A sid \in StudentsIn, c \in CategorySet :
      (Cardinality(RecordsWith(sid, c)) >= 3 /\ DistinctStamps(sid, c)) =>
        LET chrono == ChronoScores(sid, c)
            byCode == PairScores(sid, c)
        IN  /\ BagOf(recentScores(byCode)) = BagOf(LastN(chrono, 3))
            /\ BagOf(olderScores(byCode))
                 = BagOf(LastN(SubSeq(chrono, 1, Len(chrono) - 3), 3))

\* C2: for every evaluated pair a threshold alert is emitted exactly when the
\* score of the record with the latest timestamp is below 2.5.
C2_ThresholdOnLatestRecord ==
  pc = "alerts" =>
    \A sid \in StudentsIn, c \in CategorySet :
      (Cardinality(RecordsWith(sid, c)) >= 3 /\ DistinctStamps(sid, c)) =>
        LET chrono == ChronoScores(sid, c)
        IN  (AlertsOf(sid, c, "threshold") # <<>>) <=> (chrono[Len(chrono)] < 250)

\* C3: for the windows the generator forms for a pair, a decline alert is
\* emitted exactly when mean(older) - mean(recent) > 0.5; its severity is high
\* above 1, medium above 0.7, low otherwise; score = mean(recent),
\* threshold = mean(older), trend = the difference.
C3_DeclineAlert ==
  pc = "alerts" =>
    \A sid \in StudentsIn, c \in CategorySet :
      LET scores == PairScores(sid, c)
          older == olderScores(scores)
          recent == recentScores(scores)
          found == AlertsOf(sid, c, "decline")
          den == Len(older) * Len(recent)
          num == Len(recent) * Sum(older) - Len(older) * Sum(recent)
      IN  IF Cardinality(RecordsWith(sid, c)) >= 3 /\ older # <<>>
          THEN /\ Len(found) <= 1
               /\ (Len(found) = 1) <=> (num > 50 * den)
               /\ Len(found) = 1 =>
                    /\ found[1].severity =
                         (IF num > 100 * den THEN "high"
                          ELSE IF num > 70 * den THEN "medium" ELSE "low")
                    /\ found[1].score.num * Len(recent)
                         = Sum(recent) * found[1].score.den
                    /\ found[1].threshold.num * Len(older)
                         = Sum(older) * found[1].threshold.den
                    /\ found[1].trend.num * den = num * found[1].trend.den
          ELSE found = <<>>

C3_Witness ==
  /\ pc = "alerts"
  /\ \E i \in DOMAIN alerts :
       /\ alerts[i].alertType = "decline"
       /\ alerts[i].severity = "low"
       /\ alerts[i].score.den = 3

\* C4: every threshold alert has score < 2.5, threshold = 2.5, trend = 0 and
\* severity high below 1.5, medium in [1.5, 2), low in [2, 2.5); a current
\* score of exactly 2.5 yields no threshold alert.
C4_ThresholdAlert ==
  pc = "alerts" =>
    /\ \A i \in DOMAIN alerts :
         alerts[i].alertType = "threshold" =>
           /\ alerts[i].score.den = 1
           /\ alerts[i].score.num < 250
           /\ alerts[i].threshold = [num |-> 250, den |-> 1]
           /\ alerts[i].trend = [num |-> 0, den |-> 1]
           /\ alerts[i].severity =
                (IF alerts[i].score.num < 150 THEN "high"
                 ELSE IF alerts[i].score.num < 200 THEN "medium" ELSE "low")
    /\ \A sid \in StudentsIn, c \in CategorySet :
         LET scores == PairScores(sid, c)
         IN  (Cardinality(RecordsWith(sid, c)) >= 3 /\ scores[Len(scores)] = 250)
               => AlertsOf(sid, c, "threshold") = <<>>

C4_Witness ==
  /\ pc = "alerts"
  /\ \E i \in DOMAIN alerts :
       /\ alerts[i].alertType = "threshold"
       /\ alerts[i].score.num = 150
       /\ alerts[i].severity = "medium"

\* C5: a pair with 3, 4 or 5 scores in total never gets a decline alert.
C5_NoDeclineBelowSixScores ==
  pc = "alerts" =>
    \A sid \in StudentsIn, c \in CategorySet :
      Cardinality(EntriesOf(sid, c)) \in 3..5 => AlertsOf(sid, c, "decline") = <<>>

\* C6 as stated: a pair is evaluated exactly when it has at least 3 score
\* entries, several entries of one record all counting; so a pair with 3 or
\* more entries whose last windowed score is below 2.5 gets a threshold alert,
\* and a pair with fewer than 3 entries gets no alert.
C6_EvaluatedByEntries ==
  pc = "alerts" =>
    \A sid \in StudentsIn, c \in CategorySet :
      LET scores == PairScores(sid, c)
      IN  IF Cardinality(EntriesOf(sid, c)) >= 3
          THEN (AlertsOf(sid, c, "threshold") # <<>>) <=> (scores[Len(scores)] < 250)
          ELSE AlertsOf(sid, c, "threshold") = <<>> /\ AlertsOf(sid, c, "decline") = <<>>

\* C6 amended: a pair is evaluated exactly when at least 3 records of the
\* student hold an entry of the category (a record with several entries of the
\* category counts once); a pair with fewer such records yields no alert.
C6_EvaluatedByRecords ==
  pc = "alerts" =>
    \A sid \in StudentsIn, c \in CategorySet :
      LET scores == PairScores(sid, c)
      IN  IF Cardinality(RecordsWith(sid, c)) >= 3
          THEN (AlertsOf(sid, c, "threshold") # <<>>) <=> (scores[Len(scores)] < 250)
          ELSE AlertsOf(sid, c, "threshold") = <<>> /\ AlertsOf(sid, c, "decline") = <<>>

C6_Witness ==
  /\ pc = "alerts"
  /\ \E sid \in StudentsIn, c \in CategorySet :
       /\ Cardinality(RecordsWith(sid, c)) = 2
       /\ Cardinality(EntriesOf(sid, c)) = 4
       /\ \A e \in EntriesOf(sid, c) : logs[e[1]].categories[e[2]].score < 250
       /\ AlertsOf(sid, c, "threshold") = <<>>
  /\ \E sid \in StudentsIn, c \in CategorySet :
       /\ Cardinality(RecordsWith(sid, c)) = 3
       /\ AlertsOf(sid, c, "threshold") # <<>>

\* C7: the alerts are ordered by severity, high first, and alerts of equal
\* severity keep their encounter order: students by first appearance in the
\* input, categories in the canonical order, decline before threshold.
C7_SeverityThenEncounterOrder ==
  pc = "alerts" =>
    \A i, j \in DOMAIN alerts :
      i < j =>
        /\ SeverityRank(alerts[i]) >= SeverityRank(alerts[j])
        /\ SeverityRank(alerts[i]) = SeverityRank(alerts[j])
             => EncounteredBefore(alerts[i], alerts[j])

C7_Witness ==
  /\ pc = "alerts"
  /\ Len(alerts) >= 4
  /\ alerts[1].studentId = "2" /\ alerts[1].severity = "high"
  /\ alerts[1].category = Categories[2]
  /\ alerts[2].studentId = "1" /\ alerts[2].severity = "high"
  /\ \E k \in DOMAIN alerts :
       /\ alerts[k].studentId = "2"
       /\ alerts[k].category = Categories[1]
       /\ alerts[k].severity = "low"

----------------------------------------------------------------------------
(* Vocabulary of the properties of the peer comparator *)

RECURSIVE SumOver(_)
SumOver(E) ==
  IF E = {} THEN 0
  ELSE LET e == CHOOSE x \in E : TRUE
       IN  logs[e[1]].categories[e[2]].score + SumOver(E \ {e})

\* the total and the number of a student's score entries of a category
PairSum(sid, c) == SumOver(EntriesOf(sid, c))

PairCount(sid, c) == Cardinality(EntriesOf(sid, c))

\* the students with data in the category
Cohort(c) == {t \in StudentsIn : EntriesOf(t, c) # {}}

\* the students of the cohort whose average is strictly lower than sid's
LowerThan(sid, c) ==
  {t \in Cohort(c) :
     PairSum(t, c) * PairCount(sid, c) < PairSum(sid, c) * PairCount(t, c)}

RECURSIVE SumPercentiles(_, _)
SumPercentiles(percentile, C) ==
  IF C = {} THEN 0
  ELSE LET c == CHOOSE x \in C : TRUE
       IN  percentile[c] + SumPercentiles(percentile, C \ {c})

ValidCategories(percentile) == {c \in CategorySet : percentile[c] > 0}

----------------------------------------------------------------------------
(* Properties of the peer comparator *)

\* C8: for each canonical category a student with data gets percentile
\* round((students of the cohort with a strictly lower average + 1) / cohort
\* size * 100), so tied students share the percentile of the lowest rank of
\* the tie; a student without data gets 0 and is not in the cohort.
C8_PercentileByStrictlyLower ==
  pc = "peers" =>
    \A i \in DOMAIN peerComparisons :
      /\ DOMAIN peerComparisons[i].percentile = CategorySet
      /\ \A c \in CategorySet :
           LET sid == peerComparisons[i].studentId
               n == Cardinality(Cohort(c))
               lower == Cardinality(LowerThan(sid, c))
           IN  peerComparisons[i].percentile[c] =
                 (IF sid \in Cohort(c)
                  THEN (200 * (lower + 1) + n) \div (2 * n)
                  ELSE 0)

C8_Witness ==
  /\ pc = "peers"
  /\ \E i, j, k \in DOMAIN peerComparisons :
       /\ i # j
       /\ peerComparisons[i].percentile[Categories[1]] = 67
       /\ peerComparisons[j].percentile[Categories[1]] = 67
       /\ peerComparisons[k].percentile[Categories[1]] = 33
       /\ peerComparisons[k].percentile[Categories[2]] = 0

\* C9: percentile monotonicity: if student A's average of a canonical category
\* is strictly higher than student B's, A's percentile of it is at least B's.
C9_PercentileMonotone ==
  pc = "peers" =>
    \A i, j \in DOMAIN peerComparisons :
      \A c \in CategorySet :
        LET a == peerComparisons[i]
            b == peerComparisons[j]
        IN  ( /\ c \in DOMAIN a.categoryAverages
              /\ c \in DOMAIN b.categoryAverages
              /\ FracLess(b.categoryAverages[c], a.categoryAverages[c]) )
              => a.percentile[c] >= b.percentile[c]

C9_Witness ==
  /\ pc = "peers"
  /\ \E i, j, k \in DOMAIN peerComparisons :
       LET c == Categories[1]
           a == peerComparisons[i]
           b == peerComparisons[j]
           d == peerComparisons[k]
       IN  /\ c \in DOMAIN a.categoryAverages
           /\ c \in DOMAIN b.categoryAverages
           /\ c \in DOMAIN d.categoryAverages
           /\ FracLess(b.categoryAverages[c], a.categoryAverages[c])
           /\ FracLess(d.categoryAverages[c], b.categoryAverages[c])
           /\ a.percentile[c] = 100
           /\ b.percentile[c] = 67
           /\ d.percentile[c] = 33

\* C10 as stated: overallPercentile equals the unweighted mean of the
\* student's non-zero category percentiles, and is 0 only when there is none.
C10_OverallIsMean ==
  pc = "peers" =>
    \A i \in DOMAIN peerComparisons :
      LET percentile == peerComparisons[i].percentile
          valid == ValidCategories(percentile)
      IN  IF valid = {}
          THEN peerComparisons[i].overallPercentile = 0
          ELSE /\ peerComparisons[i].overallPercentile # 0
               /\ peerComparisons[i].overallPercentile * Cardinality(valid)
                    = SumPercentiles(percentile, valid)

\* C10 amended: overallPercentile equals the unweighted mean of the student's
\* non-zero category percentiles rounded to the nearest integer (a half
\* rounded up); categories without data are left out of the mean, and it is 0
\* only when the student has no non-zero percentile.
C10_OverallIsRoundedMean ==
  pc = "peers" =>
    \A i \in DOMAIN peerComparisons :
      LET percentile == peerComparisons[i].percentile
          valid == ValidCategories(percentile)
          n == Cardinality(valid)
      IN  IF valid = {}
          THEN peerComparisons[i].overallPercentile = 0
          ELSE /\ peerComparisons[i].overallPercentile # 0
               /\ peerComparisons[i].overallPercentile
                    = (2 * SumPercentiles(percentile, valid) + n) \div (2 * n)

C10_Witness ==
  /\ pc = "peers"
  /\ \E i \in DOMAIN peerComparisons :
       /\ peerComparisons[i].percentile[Categories[1]] = 67
       /\ peerComparisons[i].percentile[Categories[2]] = 100
       /\ peerComparisons[i].percentile[Categories[3]] = 0
       /\ peerComparisons[i].overallPercentile = 84

\* C19: one entry for each distinct studentId of the input, and for every
\* category the student has entries for, categoryAverages holds the
\* unweighted mean of all those entries, several entries of one record
\* included
C19_OneEntryPerStudent ==
  pc = "peers" =>
    /\ Len(peerComparisons) = Cardinality(StudentsIn)
    /\ {peerComparisons[k].studentId : k \in DOMAIN peerComparisons} = StudentsIn
    /\ \A k \in DOMAIN peerComparisons :
         LET p == peerComparisons[k]
             C == {c \in CategoriesIn(DOMAIN logs) : EntriesOf(p.studentId, c) # {}}
         IN  /\ DOMAIN p.categoryAverages = C
             /\ \A c \in C :
                  p.categoryAverages[c] =
                    Frac(PairSum(p.studentId, c), PairCount(p.studentId, c))

\* three students, one of them with three entries of a category in two records
C19_Witness ==
  /\ pc = "peers"
  /\ Len(peerComparisons) = 3
  /\ \E sid \in StudentsIn :
       /\ Cardinality(RecordsWith(sid, Categories[1])) = 2
       /\ PairCount(sid, Categories[1]) = 3

\* C20: the result is sorted by overallPercentile in descending order: no
\* entry is followed by one with a strictly higher overallPercentile
C20_DescendingOverall ==
  pc = "peers" =>
    \A i, j \in DOMAIN peerComparisons :
      i < j => peerComparisons[i].overallPercentile >= peerComparisons[j].overallPercentile

\* three students with three different overall percentiles, the student of
\* the first record not ranked first
C20_Witness ==
  /\ pc = "peers"
  /\ Len(peerComparisons) = 3
  /\ peerComparisons[1].overallPercentile > peerComparisons[2].overallPercentile
  /\ peerComparisons[2].overallPercentile > peerComparisons[3].overallPercentile
  /\ peerComparisons[1].studentId # logs[1].studentId

----------------------------------------------------------------------------
(* Vocabulary of the properties of the trend aggregator *)

\* the records the aggregation is asked about
FilteredRecords ==
  {i \in DOMAIN logs : selectedStudent = "" \/ logs[i].studentId = selectedStudent}

\* the filtered records whose day falls into the bucket of a period
RecordsOfPeriod(period) ==
  {i \in FilteredRecords :
     period \in {getWeekKey(logs[i].timestamp), getMonthKey(logs[i].timestamp)}}

----------------------------------------------------------------------------
(* Properties of the trend aggregator *)

\* C11: every emitted period carries, for each category that has an entry in
\* the filtered records of its bucket, the arithmetic mean of all those
\* entries, and totalObservations counts the bucket's entries, not its records
C11_BucketMeans ==
  pc = "trends" =>
    \A k \in DOMAIN trends :
      LET R == RecordsOfPeriod(trends[k].period)
      IN  /\ DOMAIN trends[k].scores = CategoriesIn(R)
          /\ \A c \in CategoriesIn(R) :
                trends[k].scores[c] =
                  Frac(SumOver(EntriesWith(R, c)), Cardinality(EntriesWith(R, c)))
          /\ trends[k].totalObservations = Cardinality(EntriesIn(R))

\* a week bucket of two records that holds four entries, three of one category
C11_Witness ==
  /\ pc = "trends"
  /\ \E k \in DOMAIN trends :
       /\ trends[k].period[1] = "W"
       /\ Cardinality(RecordsOfPeriod(trends[k].period)) = 2
       /\ trends[k].totalObservations = 4
       /\ trends[k].scores[Categories[1]] = Frac(850, 3)

\* the months that the records of a period's bucket fall into
MonthsOfPeriod(period) ==
  {getMonthKey(logs[i].timestamp) : i \in RecordsOfPeriod(period)}

\* C12: the returned sequence is in ascending chronological order of period,
\* whatever the order of the input: no week entry follows a later week entry
\* of the same month, and no month entry follows a later month entry.  It is
\* stated for records of one month, where the comparator of the final sort is
\* consistent and every engine returns the same sequence.
C12_ChronologicalPeriods ==
  (pc = "trends" /\ Cardinality({getMonthKey(logs[i].timestamp) : i \in FilteredRecords}) = 1) =>
    \A i, j \in DOMAIN trends :
      i < j =>
        LET a == trends[i].period
            b == trends[j].period
        IN  /\ (/\ a[1] = "W" /\ b[1] = "W"
                /\ Cardinality(MonthsOfPeriod(a)) = 1
                /\ MonthsOfPeriod(a) = MonthsOfPeriod(b))
                 => a[3] <= b[3]
            /\ (a[1] = "M" /\ b[1] = "M")
                 => (a[2] < b[2] \/ (a[2] = b[2] /\ a[3] <= b[3]))

\* the week and month keys of a set of records
KeysOf(R) ==
  {getWeekKey(logs[i].timestamp) : i \in R} \cup {getMonthKey(logs[i].timestamp) : i \in R}

\* the records of the selected student alone
OwnRecords == SelectSeq(logs, LAMBDA log : log.studentId = selectedStudent)

\* C18: with a non-empty studentId only the records of that student are
\* aggregated, and the records of other students change nothing in the
\* output; with an empty or absent studentId every record is aggregated
C18_StudentFilter ==
  pc = "trends" =>
    /\ selectedStudent # "" =>
         /\ {trends[k].period : k \in DOMAIN trends} =
              KeysOf({i \in DOMAIN logs : logs[i].studentId = selectedStudent})
         /\ \A k \in DOMAIN trends :
              trends[k].totalObservations =
                Cardinality(EntriesIn({i \in DOMAIN logs :
                  /\ logs[i].studentId = selectedStudent
                  /\ trends[k].period \in KeysOf({i})}))
         /\ trends \in calculateTrends(OwnRecords, "")
    /\ selectedStudent = "" =>
         /\ {trends[k].period : k \in DOMAIN trends} = KeysOf(DOMAIN logs)
         /\ \A k \in DOMAIN trends :
              trends[k].totalObservations =
                Cardinality(EntriesIn({i \in DOMAIN logs : trends[k].period \in KeysOf({i})}))

\* trends of student 1 from records in which only student 2 was observed in
\* February: the result has January periods and no February period
C18_Witness ==
  /\ pc = "trends"
  /\ selectedStudent = "1"
  /\ trends # <<>>
  /\ \E i \in DOMAIN logs : logs[i].studentId = "2" /\ logs[i].timestamp = 38
  /\ \A k \in DOMAIN trends : trends[k].period # <<"M", 2024, 2>>

\* the places of the week entries ("W") or of the month entries ("M")
PlacesOfKind(kind) == {k \in DOMAIN trends : trends[k].period[1] = kind}

RECURSIVE TotalObservationsOver(_)
\* the sum of totalObservations over a set of places of the result
TotalObservationsOver(K) ==
  IF K = {} THEN 0
  ELSE LET k == CHOOSE x \in K : TRUE
       IN  trends[k].totalObservations + TotalObservationsOver(K \ {k})

\* C27: every category-score entry of the filtered records is counted in
\* exactly one week bucket and one month bucket: totalObservations summed
\* over the week entries, and summed over the month entries, is the number
\* of entries; the result has exactly one entry for each distinct week key
\* and one for each distinct month key of the filtered records
C27_EveryEntryCountedOnce ==
  pc = "trends" =>
    /\ TotalObservationsOver(PlacesOfKind("W")) = Cardinality(EntriesIn(FilteredRecords))
    /\ TotalObservationsOver(PlacesOfKind("M")) = Cardinality(EntriesIn(FilteredRecords))
    /\ \A i, j \in DOMAIN trends : trends[i].period = trends[j].period => i = j
    /\ {trends[k].period : k \in PlacesOfKind("W")} =
         {getWeekKey(logs[i].timestamp) : i \in FilteredRecords}
    /\ {trends[k].period : k \in PlacesOfKind("M")} =
         {getMonthKey(logs[i].timestamp) : i \in FilteredRecords}

\* three records, one of them of another student and filtered out; the two
\* others hold four entries and fall into two weeks of one month
C27_Witness ==
  /\ pc = "trends"
  /\ selectedStudent = "1"
  /\ Cardinality(FilteredRecords) = 2
  /\ Len(logs) = 3
  /\ Cardinality(EntriesIn(FilteredRecords)) = 4
  /\ Cardinality(PlacesOfKind("W")) = 2
  /\ Cardinality(PlacesOfKind("M")) = 1

\* the filtered records of a set of days
RecordsOn(days) == {i \in FilteredRecords : logs[i].timestamp \in days}

\* the entry of a period carries the entries of the records R and no others
CarriesExactly(k, R) ==
  /\ trends[k].totalObservations = Cardinality(EntriesIn(R))
  /\ DOMAIN trends[k].scores = CategoriesIn(R)
  /\ \A c \in CategoriesIn(R) :
        trends[k].scores[c] =
          Frac(SumOver(EntriesWith(R, c)), Cardinality(EntriesWith(R, c)))

\* C28: the week counter restarts in every month.  January 2024 begins on a
\* Monday and February 2024 on a Thursday, so 10 January is in week
\* ceil((10 + 1) / 7) = 2 and 7 February in week ceil((7 + 4) / 7) = 2: records
\* of these two days get the same week key, are averaged in one week entry,
\* and are kept in two month entries
C28_WeekCounterRestarts ==
  (pc = "trends" /\ RecordsOn({10}) # {} /\ RecordsOn({38}) # {}) =>
    /\ \E k \in DOMAIN trends :
         /\ trends[k].period = <<"W", 2024, 2>>
         /\ CarriesExactly(k, RecordsOn({10, 38}))
    /\ \E k \in DOMAIN trends :
         /\ trends[k].period = <<"M", 2024, 1>>
         /\ CarriesExactly(k, RecordsOn({3, 10}))
    /\ \E k \in DOMAIN trends :
         /\ trends[k].period = <<"M", 2024, 2>>
         /\ CarriesExactly(k, RecordsOn({38}))

\* a record of 10 January with a score of 2 and one of 7 February with
\* scores of 4 and 2.5 in one week entry, with the mean of the three
C28_Witness ==
  /\ pc = "trends"
  /\ selectedStudent = ""
  /\ Len(logs) = 2
  /\ RecordsOn({10}) # {} /\ RecordsOn({38}) # {}
  /\ Len(trends) = 3
  /\ \E k \in DOMAIN trends :
       /\ trends[k].period = <<"W", 2024, 2>>
       /\ trends[k].scores[Categories[1]] = Frac(850, 3)

----------------------------------------------------------------------------
(* Properties of the recommendation generator *)

\* the two score bands the rules of every canonical category carry, in rule
\* order, in hundredths of a point
Bands == << <<100, 200>>, <<200, 300>> >>

\* the (alert, rule) pairs whose band holds the alert's score, ends included
Matches ==
  {m \in (DOMAIN alerts) \X (DOMAIN Bands) :
     /\ alerts[m[1]].category \in CategorySet
     /\ Bands[m[2]][1] * alerts[m[1]].score.den <= alerts[m[1]].score.num
     /\ alerts[m[1]].score.num <= Bands[m[2]][2] * alerts[m[1]].score.den}

\* alert order, then rule order
MatchBefore(m, n) == m[1] < n[1] \/ (m[1] = n[1] /\ m[2] < n[2])

\* the place of a match in that order
MatchRank(m) == 1 + Cardinality({n \in Matches : MatchBefore(n, m)})

\* C13: one recommendation for every alert and every rule of its category
\* whose band holds the alert's score (both ends included), carrying the
\* alert's student, category and severity, in alert order and then rule
\* order, without deduplication; a score of exactly 2 matches both bands and
\* a score above 3 matches none
C13_RecommendationPerMatch ==
  pc = "recommendations" =>
    /\ Len(recommendations) = Cardinality(Matches)
    /\ \A m \in Matches :
         LET r == recommendations[MatchRank(m)]
             a == alerts[m[1]]
         IN  /\ r.studentId = a.studentId
             /\ r.studentName = a.studentName
             /\ r.category = a.category
             /\ r.priority = a.severity
             /\ r.recommendation = getRecommendationMap[a.category][m[2]].recommendation
             /\ r.activity = getRecommendationMap[a.category][m[2]].activity
             /\ r.resources = getRecommendationMap[a.category][m[2]].resources
    /\ \A i \in DOMAIN alerts :
         /\ alerts[i].score = Frac(200, 1) /\ alerts[i].category \in CategorySet
              => {<<i, 1>>, <<i, 2>>} \subseteq Matches
         /\ FracLess(Frac(300, 1), alerts[i].score)
              => \A b \in DOMAIN Bands : <<i, b>> \notin Matches

\* the same alert of score exactly 2 twice, behind an alert of score 3.25:
\* four recommendations, two of each rule
C13_Witness ==
  /\ pc = "recommendations"
  /\ Len(alerts) = 3
  /\ alerts[1].score = Frac(325, 1)
  /\ alerts[2].score = Frac(200, 1)
  /\ alerts[3] = alerts[2]
  /\ Len(recommendations) = 4
  /\ recommendations[1] = recommendations[3]
  /\ recommendations[1] # recommendations[2]

----------------------------------------------------------------------------
(* Properties of a call of any of the four functions *)

\* C15: no function changes its input: the record array keeps its length,
\* its order and every field of every record, and the alert array handed to
\* generateRecommendations is left as it was (the alerts change only as the
\* result of generateInterventionAlerts)
C15_InputsUnchanged ==
  [][/\ logs' = logs
     /\ alerts' # alerts => pc' = "alerts"]_vars

\* a call of calculateTrends for one student on records of two students, and
\* a call of generateRecommendations that produced recommendations
C15_Witness ==
  \/ /\ pc = "trends"
     /\ selectedStudent = "1"
     /\ \E i \in DOMAIN logs : logs[i].studentId = "2"
  \/ /\ pc = "recommendations"
     /\ Len(alerts) = 2
     /\ recommendations # <<>>

\* the category names in the records and in the alerts handed in
CategoryNames ==
  CategoriesIn(DOMAIN logs) \cup {alerts[i].category : i \in DOMAIN alerts}

\* C16: missing or insufficient data is never an error: on an empty input
\* each function returns the empty sequence; a record without a categories
\* array, a student without data for a category and a pair with fewer than 3
\* observations only leave their slice out of the result (no score for the
\* category in the period, no average and no percentile for it, no alert),
\* and none of them makes a call throw: a call throws only on a category
\* that bears the name of an inherited object member
C16_MissingDataIsNoError ==
  /\ (pc = "trends" /\ logs = <<>>) => trends = <<>>
  /\ (pc = "peers" /\ logs = <<>>) => peerComparisons = <<>>
  /\ (pc = "alerts" /\ logs = <<>>) => alerts = <<>>
  /\ (pc = "recommendations" /\ alerts = <<>>) => recommendations = <<>>
  /\ pc = "threw" => CategoryNames \cap InheritedKeys # {}
  /\ pc = "trends" =>
       \A k \in DOMAIN trends :
         DOMAIN trends[k].scores = CategoriesIn(RecordsOfPeriod(trends[k].period))
  /\ pc = "peers" =>
       \A k \in DOMAIN peerComparisons :
         LET p == peerComparisons[k]
         IN  /\ DOMAIN p.categoryAverages =
                  {c \in CategoriesIn(DOMAIN logs) : EntriesOf(p.studentId, c) # {}}
             /\ \A c \in CategorySet :
                  EntriesOf(p.studentId, c) = {} => p.percentile[c] = 0
  /\ pc = "alerts" =>
       \A k \in DOMAIN alerts :
         Cardinality(RecordsWith(alerts[k].studentId, alerts[k].category)) >= 3

\* a comparison returned for two students, one of whom has only a record
\* without a categories array and so no average at all
C16_Witness ==
  /\ pc = "peers"
  /\ Len(peerComparisons) = 2
  /\ \E i \in DOMAIN logs : "categories" \notin DOMAIN logs[i]
  /\ \E k \in DOMAIN peerComparisons :
       DOMAIN peerComparisons[k].categoryAverages = {}

\* the records with every entry of a category outside the canonical five
\* taken out
CanonicalOnly(ls) ==
  [i \in DOMAIN ls |->
     IF "categories" \in DOMAIN ls[i]
     THEN [ls[i] EXCEPT !.categories =
             SelectSeq(@, LAMBDA cat : cat.category \in CategorySet)]
     ELSE ls[i]]

\* the percentiles of a comparison result, by student
PercentilesOf(result) ==
  [k \in DOMAIN result |->
     <<result[k].studentId, result[k].percentile, result[k].overallPercentile>>]

\* what C17 says of the results, apart from raising no error
UnknownCategoryInvisible ==
  /\ pc = "trends" =>
       \A k \in DOMAIN trends :
         LET R == RecordsOfPeriod(trends[k].period)
         IN  \A c \in CategoriesIn(R) \ CategorySet :
               /\ c \in DOMAIN trends[k].scores
               /\ trends[k].scores[c] =
                    Frac(SumOver(EntriesWith(R, c)), Cardinality(EntriesWith(R, c)))
  /\ pc = "peers" =>
       /\ \A k \in DOMAIN peerComparisons :
            LET p == peerComparisons[k]
            IN  /\ \A c \in CategoriesIn(DOMAIN logs) \ CategorySet :
                     EntriesOf(p.studentId, c) # {} =>
                       /\ c \in DOMAIN p.categoryAverages
                       /\ p.categoryAverages[c] =
                            Frac(PairSum(p.studentId, c), PairCount(p.studentId, c))
                /\ DOMAIN p.percentile = CategorySet
       /\ PercentilesOf(peerComparisons) =
            PercentilesOf(calculatePeerComparison(CanonicalOnly(logs)))
  /\ pc = "alerts" =>
       /\ \A k \in DOMAIN alerts : alerts[k].category \in CategorySet
       /\ alerts = generateInterventionAlerts(CanonicalOnly(logs))
  /\ pc = "recommendations" =>
       /\ \A k \in DOMAIN recommendations : recommendations[k].category \in CategorySet
       /\ recommendations =
            generateRecommendations(logs,
              SelectSeq(alerts, LAMBDA a : a.category \in CategorySet))

\* C17: a category outside the canonical five is tolerated and invisible
\* downstream: its scores are aggregated into the trend scores and into
\* categoryAverages, it gets no percentile entry, changes no percentile and
\* no overallPercentile, produces no alert, an alert that carries it yields
\* no recommendation, and no call on an input with such a category throws
C17_UnknownCategoryTolerated ==
  /\ UnknownCategoryInvisible
  /\ CategoryNames \ CategorySet # {} => pc # "threw"

----------------------------------------------------------------------------
(* Properties of the peer comparator on a cohort of one *)

\* C21: a student who is alone in the record set gets percentile 100 in every
\* canonical category they have data for, 0 in the canonical categories
\* without data, and overallPercentile 100 if they have data in at least one
\* canonical category
C21_SingleStudentAtTop ==
  (pc = "peers" /\ Cardinality(StudentsIn) = 1) =>
    /\ Len(peerComparisons) = 1
    /\ \A c \in CategorySet :
         peerComparisons[1].percentile[c] =
           IF EntriesOf(peerComparisons[1].studentId, c) # {} THEN 100 ELSE 0
    /\ (\E c \in CategorySet : EntriesOf(peerComparisons[1].studentId, c) # {})
         => peerComparisons[1].overallPercentile = 100

\* one student with data in two canonical categories and in a non-canonical
\* one, and none in the other three
C21_Witness ==
  /\ pc = "peers"
  /\ Cardinality(StudentsIn) = 1
  /\ peerComparisons[1].overallPercentile = 100
  /\ peerComparisons[1].percentile[Categories[2]] = 100
  /\ peerComparisons[1].percentile[Categories[4]] = 0
  /\ "Motor Skills" \in DOMAIN peerComparisons[1].categoryAverages

----------------------------------------------------------------------------
(* Properties of the alerts of a pair *)

\* the places of the alerts of a pair and a type in the result
AlertPlaces(sid, c, type) ==
  {k \in DOMAIN alerts :
     /\ alerts[k].studentId = sid
     /\ alerts[k].category = c
     /\ alerts[k].alertType = type}

\* C22: the result holds at most one decline alert and at most one threshold
\* alert for every (studentId, category) pair, so a pair has zero, one or
\* two alerts; the two checks are independent, either fires without the other
C22_AtMostOneAlertOfAType ==
  pc = "alerts" =>
    /\ \A k \in DOMAIN alerts : alerts[k].alertType \in {"decline", "threshold"}
    /\ \A sid \in StudentsIn :
         \A c \in CategorySet :
           /\ Cardinality(AlertPlaces(sid, c, "decline")) <= 1
           /\ Cardinality(AlertPlaces(sid, c, "threshold")) <= 1

\* a pair with a decline alert and no threshold alert: its last score is 2.5
C22_Witness ==
  /\ pc = "alerts"
  /\ Cardinality(AlertPlaces("1", Categories[1], "decline")) = 1
  /\ AlertPlaces("1", Categories[1], "threshold") = {}

----------------------------------------------------------------------------
(* Properties of the alerts of the demo records *)

\* the day of the newest record
FinalDay == CHOOSE d \in {logs[i].timestamp : i \in DOMAIN logs} :
              \A i \in DOMAIN logs : logs[i].timestamp <= d

\* the score entries of a pair in the final week
FinalEntries(sid, c) == {e \in EntriesOf(sid, c) : logs[e[1]].timestamp = FinalDay}

\* C23: on every record set the demo generator can produce, student '2'
\* ('Mike Chen') gets a threshold alert for each category in which all of
\* that student's final-week scores are below 2.5
C23_DemoThresholdAlerts ==
  pc = "alerts" =>
    \A c \in CategorySet :
      (/\ FinalEntries("2", c) # {}
       /\ \A e \in FinalEntries("2", c) :
            logs[e[1]].categories[e[2]].score < ScoreThreshold)
        => AlertPlaces("2", c, "threshold") # {}

\* the list without the element at place i
WithoutPlace(s, i) == SubSeq(s, 1, i - 1) \o SubSeq(s, i + 1, Len(s))

\* C24: a press of the dismiss button of a displayed alert removes that
\* alert from the displayed list and leaves every other alert in it
C24_DismissRemovesAlert ==
  pc = "dismissed" => alerts = WithoutPlace(clicked.shown, clicked.index)

\* the severities of the decline alerts of a list
declineSeverities(as) ==
  {as[i].severity : i \in {j \in DOMAIN as : as[j].alertType = "decline"}}

\* C26: each of the three decline severities is emitted for some record
\* set with scores on the 1-5 scale
C26_EachSeverityReachable ==
  pc = "alerts" =>
    \A severity \in {"low", "medium", "high"} :
      \E ls \in SeverityInputs :
        severity \in declineSeverities(generateInterventionAlerts(ls))

----------------------------------------------------------------------------
(* Properties of the account lockout *)

\* C25: once maxLoginAttempts failed logins are recorded and the account is
\* locked, every later login for the email returns the 'Account locked'
\* failure without asking the backend, until lockoutDuration has elapsed
C25_LockedUntilElapsed ==
  \A p \in Callers :
    calls[p].bound => (calls[p].result = "Account locked" /\ ~calls[p].asked)

----------------------------------------------------------------------------
(* Properties of the synchronisation *)

\* the sync() calls that are inside performSync
Performing == {r \in Runners : runs[r].at \in {"getSyncQueue", "processBatch"}}

\* C29: at most one sync() call made without force is inside performSync at
\* any time, whatever the interleaving of the calls
C29_OneSyncAtATime ==
  Cardinality({r \in Performing : ~runs[r].force}) <= 1

\* no sync() call is in flight
Quiet == \A r \in Runners : runs[r].at \in {"idle", "returned"}

\* C30: an item is sent to the server at most maxRetries times; an item whose
\* send has succeeded is out of the queue; an item is counted in failedItems
\* at most once, and failedItems is the number of items counted; between
\* sync runs no item is in the queue with retries >= maxRetries
C30_BoundedRetry ==
  /\ \A i \in Items : history.sent[i] <= maxRetries
  /\ \A i \in Items : history.failed[i] <= 1
  /\ Quiet =>
       /\ \A i \in Items : syncQueue[i] < maxRetries
       /\ \A i \in history.synced : syncQueue[i] = -1

====
